---- MODULE Spec2Model ----
(***************************************************************************)
(* The iterative code-generation-and-verification loop of ai-dev.          *)
(*                                                                         *)
(* Three evolutions of the task handler live in the repository:            *)
(*   "utils"   src/src/utils.ts            (retry loop, buildProject       *)
(*                                          returns a result record)       *)
(*   "part002" src/unnamed/part_002        (retry loop with synthesized    *)
(*                                          tests, buildProject throws)    *)
(*   "router"  src/src/routes/ai-developer.ts  (single shot, no build)     *)
(* The variable `variant` says which one a run executes.                   *)
(*                                                                         *)
(* A text is a sequence of tokens (strings); a template literal is the     *)
(* concatenation of its fixed tokens and its interpolated texts.  A model  *)
(* response and a file content are sequences of lines; a line is a record  *)
(* [k |-> kind, v |-> tuple of strings].                                   *)
(***************************************************************************)
EXTENDS Integers, Sequences, FiniteSets, TLC

VARIABLES
    variant,            \* which evolution of the handler runs
    issue,              \* the request body (AiTaskRequest)
    hpc,                \* position of the task handler
    pc,                 \* position inside iterativeCodeGeneration
    attempt,            \* utils.ts:325  let attempt = 0
    allChanged,         \* utils.ts:326  new Set<string>() in insertion order
    currentDescription, \* utils.ts:327
    iterations,         \* utils.ts:328  IterationResult[]
    repoContext,        \* the digest gathered for the running attempt
    prompt,             \* the prompt built for the running attempt
    aiResponse,         \* the raw response of the running attempt
    changed,            \* the paths applyAiChanges returned for the attempt
    built,              \* how the last call of buildProject ended
    chroma,             \* vectorStore.ts:12  the collections of the Chroma server
    tmpdir,             \* os.tmpdir()/ai-assist-repos: working directory -> tree
    handlers,           \* the requests served side by side, each at its step
    git,                \* what the last git step saw and checked out
    tokensFile,         \* gitHubOAuth.ts:15  github_tokens.json
    requests,           \* the OAuth requests being served, each at its step
    disk,               \* working tree: relative path -> content (lines)
    pendingTests,       \* part_002 generateTests: test files still to write
    testFiles,          \* part_002 generateTests: test files on disk
    branch,             \* the feature branch the handler created
    calls,              \* calls made to the external capabilities so far
    outcomes,           \* what the build and test processes of each attempt did
    writes,             \* every file write so far: [attempt, path]
    mkdirs,             \* every directory creation so far: [attempt, dir]
    thrown,             \* the error that ended the run, "none" while running
    response            \* the HTTP reply / handler result

vars == <<variant, issue, hpc, pc, attempt, allChanged, currentDescription,
          iterations, repoContext, prompt, aiResponse, changed, disk,
          pendingTests, testFiles, branch, calls, outcomes, writes,
          mkdirs, built, chroma, tmpdir, handlers, git, tokensFile, requests,
          thrown, response>>

\* what the handlers of one process share
shared == <<chroma, tmpdir, handlers, tokensFile, requests>>

MAX_RETRIES == 3

\* utils.ts:201  const MAX_PROMPT_LENGTH = 8000 (no statement reads it)
MAX_PROMPT_LENGTH == 8000

Variants == {"utils", "part002", "router"}

-----------------------------------------------------------------------------
(* Texts *)

\* JavaScript a || b on strings: the first non-empty one
Or(a, b) == IF a # <<>> THEN a ELSE b

\* String.prototype.includes for a one-token needle
Includes(text, token) == \E i \in 1..Len(text) : text[i] = token

\* s occurs in text as a contiguous run of tokens
Contains(text, s) ==
    \E i \in 0..(Len(text) - Len(s)) : SubSeq(text, i + 1, i + Len(s)) = s

\* An optional string field (buildError?: string)
Undefined == [set |-> FALSE, text |-> <<>>]
Some(t) == [set |-> TRUE, text |-> t]

\* JavaScript truthiness of an optional string
Truthy(o) == o.set /\ o.text # <<>>

RECURSIVE SeqToSet(_)
SeqToSet(s) == IF s = <<>> THEN {} ELSE {Head(s)} \cup SeqToSet(Tail(s))

\* SetAdd as Array.prototype.push: a path is added each time it is written
SetAddPush(s, x) == Append(s, x)

\* Set.prototype.add on a Set kept in insertion order
SetAdd(s, x) == IF x \in SeqToSet(s) THEN s ELSE Append(s, x)

RECURSIVE SetAddAll(_, _)
SetAddAll(s, xs) ==
    IF xs = <<>> THEN s ELSE SetAddAll(SetAdd(s, Head(xs)), Tail(xs))

-----------------------------------------------------------------------------
(* Model responses: lines *)

Line(k, v) == [k |-> k, v |-> v]

PathLine(p) == Line("path", <<p>>)          \* "- Path: p"
ContentLine == Line("content", <<>>)        \* "- Content:"
ContentLineSp == Line("contentSp", <<>>)    \* "- Content:  " (as in the prompt)
Fence(lang) == Line("fence", lang)          \* "```ts" (<<"ts">>) or "```" (<<>>)
Code(t) == Line("code", <<t>>)
BlankLine == Line("blank", <<>>)            \* "" or whitespace only
JOpen == Line("{", <<>>)
JClose == Line("}", <<>>)
JTop(key, val) == Line("top", <<key, val>>)             \* "name": "app"
JSection(s) == Line("section", <<s>>)                   \* "scripts": {
JEntry(s, key, val) == Line("entry", <<s, key, val>>)   \*   "build": "tsc"

\* line.trim().startsWith("- Content:")            utils.ts:134-136
TrimmedContentMarkers == {"content", "contentSp", "contentInd"}
\* line.startsWith("- Content:")                   ai-developer.ts:185-187
RawContentMarkers == {"content", "contentSp"}

\* relPath.startsWith("<") and relPath.includes(">")   part_002:297
StartsWithLt(p) == p \in {"<relative/path>", "<src/x.ts"}
IncludesGt(p) == p \in {"<relative/path>", "src/a>b.ts"}

RECURSIVE NextPathIndex(_, _)
NextPathIndex(resp, i) ==
    IF i > Len(resp) THEN Len(resp) + 1
    ELSE IF resp[i].k = "path" THEN i
    ELSE NextPathIndex(resp, i + 1)

\* aiResponse.split("- Path: ").slice(1), each block split on "\n": the text
\* before the next marker ends with the newline that precedes the marker, so
\* every block but the last ends with an empty line.
RECURSIVE SplitBlocks(_, _)
SplitBlocks(resp, i) ==
    LET p == NextPathIndex(resp, i) IN
    IF p > Len(resp) THEN <<>>
    ELSE LET n == NextPathIndex(resp, p + 1)
             body == SubSeq(resp, p + 1, n - 1)
                     \o (IF n <= Len(resp) THEN <<BlankLine>> ELSE <<>>)
         IN <<[path |-> resp[p].v[1], lines |-> body]>> \o SplitBlocks(resp, n)

\* contentLines.findIndex(...): 0 stands for -1
RECURSIVE FindIndex(_, _, _)
FindIndex(lines, markers, i) ==
    IF i > Len(lines) THEN 0
    ELSE IF lines[i].k \in markers THEN i
    ELSE FindIndex(lines, markers, i + 1)

RECURSIVE TrimStart(_)
TrimStart(ls) ==
    IF ls # <<>> /\ ls[1].k = "blank" THEN TrimStart(Tail(ls)) ELSE ls

RECURSIVE TrimEnd(_)
TrimEnd(ls) ==
    IF ls # <<>> /\ ls[Len(ls)].k = "blank"
    THEN TrimEnd(SubSeq(ls, 1, Len(ls) - 1)) ELSE ls

\* String.prototype.trim on a multi-line text
Trim(ls) == TrimEnd(TrimStart(ls))

\* utils.ts:18-23 (and ai-developer.ts:162-167)
\*   .replace(/^```[a-z]*\n?/i, "").replace(/\n?```$/, "").trim()
cleanFileContent(raw) ==
    LET a == IF raw # <<>> /\ raw[1].k = "fence" THEN Tail(raw) ELSE raw
        b == IF a # <<>> /\ a[Len(a)] = Fence(<<>>)
             THEN SubSeq(a, 1, Len(a) - 1) ELSE a
    IN Trim(b)

\* index of the first line after the first that is exactly "```", 0 if none
RECURSIVE FirstCloseFence(_, _)
FirstCloseFence(ls, i) ==
    IF i > Len(ls) THEN 0
    ELSE IF i >= 2 /\ ls[i] = Fence(<<>>) THEN i
    ELSE FirstCloseFence(ls, i + 1)

\* part_002:317-322
\*   .replace(/^```[a-z]*\n/, "").replace(/\n```$/m, "").trim()
cleanContent(raw) ==
    LET a == IF Len(raw) >= 2 /\ raw[1].k = "fence" THEN Tail(raw) ELSE raw
        c == FirstCloseFence(a, 1)
        b == IF c = 0 THEN a
             ELSE SubSeq(a, 1, c - 1) \o SubSeq(a, c + 1, Len(a))
    IN Trim(b)

\* part_002:288-293  the matches of
\*   /- Path: ([^\n]+)\n- Content:\n([\s\S]*?)(?=(?:\n- Path:|$))/g
\* a path line directly followed by a "- Content:" line and a newline; the
\* content runs lazily to the newline before the next path line or to the end.
RECURSIVE RegexBlocks(_, _)
RegexBlocks(resp, i) ==
    LET p == NextPathIndex(resp, i) IN
    IF p > Len(resp) THEN <<>>
    ELSE IF p + 2 <= Len(resp) /\ resp[p + 1] = ContentLine
    THEN LET n == NextPathIndex(resp, p + 3)
         IN <<[path |-> resp[p].v[1], lines |-> SubSeq(resp, p + 2, n - 1)]>>
            \o RegexBlocks(resp, n)
    ELSE RegexBlocks(resp, p + 1)

-----------------------------------------------------------------------------
(* The working tree and applyAiChanges *)

\* fs.writeFile(fullPath, content): the file is created or fully overwritten
WriteFile(d, path, content) ==
    [p \in (DOMAIN d) \cup {path} |-> IF p = path THEN content ELSE d[p]]

\* JSON.parse succeeds on an object document
IsJson(ls) ==
    /\ Len(ls) >= 2
    /\ ls[1] = JOpen
    /\ ls[Len(ls)] = JClose
    /\ \A i \in 2..(Len(ls) - 1) : ls[i].k \in {"top", "section", "entry"}

\* the parsed object: its members in key order
JsonParse(ls) == SubSeq(ls, 2, Len(ls) - 1)

\* JSON.stringify(obj, null, 2)
JsonStringify(obj) == <<JOpen>> \o obj \o <<JClose>>

RECURSIVE LastIndexOfSection(_, _, _)
LastIndexOfSection(obj, s, i) ==
    IF i = 0 THEN 0
    ELSE IF obj[i].k \in {"section", "entry"} /\ obj[i].v[1] = s THEN i
    ELSE LastIndexOfSection(obj, s, i - 1)

\* MergeSection with the model's entries spread last: they replace the
\* entries the manifest has under the same key
MergeSectionOverride(existing, aiPkg, s) ==
    LET has(l) == l.k = "entry" /\ l.v[1] = s
        keys == {aiPkg[i].v[2] : i \in {j \in 1..Len(aiPkg) : has(aiPkg[j])}}
        kept(l) == ~(has(l) /\ l.v[2] \in keys)
        rest == SelectSeq(existing, kept)
        added == SelectSeq(aiPkg, has)
        at == LastIndexOfSection(rest, s, Len(rest))
    IN IF at = 0 THEN rest \o <<JSection(s)>> \o added
       ELSE SubSeq(rest, 1, at) \o added \o SubSeq(rest, at + 1, Len(rest))

\* utils.ts:157-164 (and 167-174, 177-184)
\*   existing[s] = { ...existing[s],
\*                   ...entries of aiPkg[s] whose key is not in existing[s] }
MergeSection(existing, aiPkg, s) ==
    LET has(l) == l.k = "entry" /\ l.v[1] = s
        keys == {existing[i].v[2] : i \in {j \in 1..Len(existing) : has(existing[j])}}
        isNew(l) == has(l) /\ l.v[2] \notin keys
        added == SelectSeq(aiPkg, isNew)
        at == LastIndexOfSection(existing, s, Len(existing))
    IN IF at = 0 THEN existing \o <<JSection(s)>> \o added
       ELSE SubSeq(existing, 1, at) \o added
            \o SubSeq(existing, at + 1, Len(existing))

\* utils.ts:150-186  the package.json branch
MergeManifest(existing, aiPkg) ==
    MergeSection(
        MergeSection(MergeSection(existing, aiPkg, "scripts"),
                     aiPkg, "dependencies"),
        aiPkg, "devDependencies")

\* what one call of applyAiChanges has done so far
ApplyStart(d) ==
    [disk |-> d, changed |-> <<>>, made |-> <<>>, threw |-> "none"]

\* path.dirname(relativePath)
\* path.join(localPath, relativeFilePath), as a location relative to
\* localPath: "." and ".." segments are resolved, a leading "/" is just a
\* separator, and a path with more ".." than directories leaves localPath
Resolve(path) ==
    IF path \in {"./package.json", "src/../package.json"} THEN "package.json"
    ELSE IF path = "/etc/cron.d/job" THEN "etc/cron.d/job"
    ELSE path

\* the location is localPath or below it
Inside(location) == location \notin {"../outside.ts", ".."}

\* path.dirname(fullFilePath)
Dirname(path) ==
    IF path \in {"src/health.ts", "src/app.ts", "src/a>b.ts", "src/a<b.ts"}
    THEN "src"
    ELSE IF path = "<relative/path>" THEN "<relative"
    ELSE IF path = "<src/x.ts" THEN "<src"
    ELSE IF path = "/etc/cron.d/job" THEN "etc/cron.d"
    ELSE IF path = "../outside.ts" THEN ".."
    ELSE "."

\* fs.mkdir(path.dirname(fullPath), {recursive: true}) has returned
MadeDir(r, path) == [r EXCEPT !.made = Append(@, Dirname(path))]

\* fs.writeFile has returned and the path is pushed on the result
Wrote(r, path, content) ==
    [r EXCEPT !.disk = WriteFile(r.disk, Resolve(path), content),
              !.changed = Append(@, path)]

Threw(r, what) == [r EXCEPT !.threw = what]

\* ApplyBlocksUtils with the parent directory created before the search for
\* the content marker
RECURSIVE ApplyBlocksUtilsMkdirFirst(_, _, _, _)
ApplyBlocksUtilsMkdirFirst(blocks, i, r, failAt) ==
    IF i > Len(blocks) \/ r.threw # "none" THEN r
    ELSE LET b == blocks[i]
             idx == FindIndex(b.lines, TrimmedContentMarkers, 1)
             content == cleanFileContent(SubSeq(b.lines, idx + 1, Len(b.lines)))
             next ==
               IF i = failAt THEN Threw(r, "fs")
               ELSE IF idx = 0 THEN MadeDir(r, b.path)
               ELSE IF b.path = "package.json"
               THEN IF \/ b.path \in DOMAIN r.disk /\ ~IsJson(r.disk[b.path])
                       \/ ~IsJson(content)
                    THEN Threw(MadeDir(r, b.path), "json")
                    ELSE IF i = -failAt THEN Threw(MadeDir(r, b.path), "fs")
                    ELSE Wrote(MadeDir(r, b.path), b.path,
                               JsonStringify(MergeManifest(
                                  IF b.path \in DOMAIN r.disk
                                  THEN JsonParse(r.disk[b.path]) ELSE <<>>,
                                  JsonParse(content))))
               ELSE IF i = -failAt THEN Threw(MadeDir(r, b.path), "fs")
               ELSE Wrote(MadeDir(r, b.path), b.path, content)
         IN ApplyBlocksUtilsMkdirFirst(blocks, i + 1, next, failAt)

\* utils.ts:130-195  the loop over the file blocks; fs.mkdir rejects at block
\* failAt, fs.writeFile rejects at block -failAt (0: the file system never
\* fails)
RECURSIVE ApplyBlocksUtils(_, _, _, _)
ApplyBlocksUtils(blocks, i, r, failAt) ==
    IF i > Len(blocks) \/ r.threw # "none" THEN r
    ELSE LET b == blocks[i]
             idx == FindIndex(b.lines, TrimmedContentMarkers, 1)
             content == cleanFileContent(SubSeq(b.lines, idx + 1, Len(b.lines)))
             next ==
               IF idx = 0 THEN r
               ELSE IF i = failAt THEN Threw(r, "fs")
               ELSE IF b.path = "package.json"
               THEN IF \/ b.path \in DOMAIN r.disk /\ ~IsJson(r.disk[b.path])
                       \/ ~IsJson(content)
                    THEN Threw(MadeDir(r, b.path), "json")
                    ELSE IF i = -failAt THEN Threw(MadeDir(r, b.path), "fs")
                    ELSE Wrote(MadeDir(r, b.path), b.path,
                               JsonStringify(MergeManifest(
                                  IF b.path \in DOMAIN r.disk
                                  THEN JsonParse(r.disk[b.path]) ELSE <<>>,
                                  JsonParse(content))))
               ELSE IF i = -failAt THEN Threw(MadeDir(r, b.path), "fs")
               ELSE Wrote(MadeDir(r, b.path), b.path, content)
         IN ApplyBlocksUtils(blocks, i + 1, next, failAt)

\* utils.ts:121-198
applyAiChangesUtils(d, resp, failAt) ==
    ApplyBlocksUtils(SplitBlocks(resp, 1), 1, ApplyStart(d), failAt)

\* part_002:293-311
RECURSIVE ApplyBlocksPart002(_, _, _, _)
ApplyBlocksPart002(blocks, i, r, failAt) ==
    IF i > Len(blocks) \/ r.threw # "none" THEN r
    ELSE LET b == blocks[i]
             next ==
               IF StartsWithLt(b.path) \/ IncludesGt(b.path) THEN r
               ELSE IF i = failAt THEN Threw(r, "fs")
               ELSE IF i = -failAt THEN Threw(MadeDir(r, b.path), "fs")
               ELSE Wrote(MadeDir(r, b.path), b.path, cleanContent(b.lines))
         IN ApplyBlocksPart002(blocks, i + 1, next, failAt)

\* part_002:283-315
applyAiChangesPart002(d, resp, failAt) ==
    ApplyBlocksPart002(RegexBlocks(resp, 1), 1, ApplyStart(d), failAt)

\* ai-developer.ts:181-205
RECURSIVE ApplyBlocksRouter(_, _, _, _)
ApplyBlocksRouter(blocks, i, r, failAt) ==
    IF i > Len(blocks) \/ r.threw # "none" THEN r
    ELSE LET b == blocks[i]
             idx == FindIndex(b.lines, RawContentMarkers, 1)
             next ==
               IF idx = 0 THEN r
               ELSE IF i = failAt THEN Threw(r, "fs")
               ELSE IF i = -failAt THEN Threw(MadeDir(r, b.path), "fs")
               ELSE Wrote(MadeDir(r, b.path), b.path,
                    cleanFileContent(SubSeq(b.lines, idx + 1, Len(b.lines))))
         IN ApplyBlocksRouter(blocks, i + 1, next, failAt)

\* ai-developer.ts:174-208
applyAiChangesRouter(d, resp, failAt) ==
    ApplyBlocksRouter(SplitBlocks(resp, 1), 1, ApplyStart(d), failAt)

-----------------------------------------------------------------------------
(* Context gathering and prompts *)

\* existsSync(path.join(directory, "src"))
UnderSrc(p) == p \in {"src/health.ts", "src/app.ts", "src/a>b.ts"}
SrcExists(d) == \E p \in DOMAIN d : UnderSrc(p)

\* the text of one line
LineText(l) ==
    IF l.k = "path" THEN <<"- Path: ">> \o l.v
    ELSE IF l.k = "content" THEN <<"- Content:">>
    ELSE IF l.k = "contentSp" THEN <<"- Content:  ">>
    ELSE IF l.k = "contentInd" THEN <<"  - Content:">>
    ELSE IF l.k = "fence" THEN <<"(fence)">> \o l.v
    ELSE IF l.k = "blank" THEN <<>>
    ELSE IF l.k \in {"{", "}"} THEN <<l.k>>
    ELSE l.v

\* lines.join("\n")
RECURSIVE JoinLines(_, _)
JoinLines(ls, i) ==
    IF i > Len(ls) THEN <<>>
    ELSE (IF i > 1 THEN <<"\n">> ELSE <<>>) \o LineText(ls[i])
         \o JoinLines(ls, i + 1)

\* vectorStore.ts:15-74: embedRepoFiles indexes the files under src and
\* searchRelevantFiles returns them as [path, content], most relevant first
RelevanceOrder == <<"src/app.ts", "src/health.ts", "src/a>b.ts">>

RECURSIVE searchRelevantFiles(_, _)
searchRelevantFiles(d, i) ==
    IF i > Len(RelevanceOrder) THEN <<>>
    ELSE (IF RelevanceOrder[i] \in DOMAIN d
          THEN <<[path |-> RelevanceOrder[i],
                  content |-> JoinLines(d[RelevanceOrder[i]], 1)]>>
          ELSE <<>>)
         \o searchRelevantFiles(d, i + 1)

\* relevant.map((f, i) => `--- File ${i + 1} (${f.path}) ---\n${f.content}`)
\*         .join("\n")                                   utils.ts:97-99
RECURSIVE Digest(_, _)
Digest(relevant, i) ==
    IF i > Len(relevant) THEN <<>>
    ELSE (IF i > 1 THEN <<"\n">> ELSE <<>>)
         \o <<"--- File ", ToString(i), " (", relevant[i].path, ") ---\n">>
         \o relevant[i].content
         \o Digest(relevant, i + 1)

NoFilesAvailable == <<"No files available.">>

\* ai-developer.ts:96-103
RECURSIVE RouterDigestFiles(_, _)
RouterDigestFiles(relevant, i) ==
    IF i > Len(relevant) THEN <<>>
    ELSE (IF i > 1 THEN <<"\n">> ELSE <<>>)
         \o <<"--- File ", ToString(i), " ---\n content:">>
         \o relevant[i].content
         \o <<" ---\n path: ", relevant[i].path>>
         \o RouterDigestFiles(relevant, i + 1)

RouterDigest(relevant) ==
    <<"Top relevant files:\n">> \o RouterDigestFiles(relevant, 1)

\* utils.ts:229-256
buildPromptUtils(ctx, issueSummary, issueDescription) ==
    <<"You are an expert software engineer collaborating on a real codebase. [...]\n\n--- REPOSITORY CONTEXT ---\n">>
    \o Or(ctx, <<"No files in repo. Might be a new project.">>)
    \o <<"\n\n--- ISSUE ---\n">>
    \o issueSummary \o <<"\n">> \o issueDescription
    \o <<"\n\n--- GUIDELINES ---\n[...] If no files need changing, return nothing.">>

\* part_002:247-267
buildPromptPart002(ctx, summary, description) ==
    <<"You are an expert software engineer. [...]\n\n--- REPO CONTEXT ---\n">>
    \o ctx
    \o <<"\n\n--- ISSUE ---\nTitle: ">> \o summary
    \o <<"\nDescription: ">> \o description
    \o <<"\n\nFormat:\n[...]\n\nDo not include explanations.">>

\* ai-developer.ts:111-129
buildPromptRouter(ctx, issueSummary, issueDescription) ==
    <<"\nYou are an expert software engineer. [...]\n\n--- REPOSITORY CONTEXT ---\n">>
    \o Or(ctx, <<"No files available. This might be a new repository.">>)
    \o <<"\n\n--- ISSUE DETAILS ---\nTitle: ">> \o issueSummary
    \o <<"\nDescription: ">> \o issueDescription
    \o <<"\n\n--- INSTRUCTIONS ---\n[...]\n">>

buildPrompt(v, ctx, summary, description) ==
    IF v = "utils" THEN buildPromptUtils(ctx, summary, description)
    ELSE IF v = "part002" THEN buildPromptPart002(ctx, summary, description)
    ELSE buildPromptRouter(ctx, summary, description)

-----------------------------------------------------------------------------
(* The build and the tests *)

\* what an external process left behind: exit status and captured output
Proc(ok, out, err) ==
    [ok |-> ok, started |-> TRUE, stdout |-> out, stderr |-> err]

\* the shell could not be started: no exit status and no output
NotStarted ==
    [ok |-> FALSE, started |-> FALSE, stdout |-> <<>>, stderr |-> <<>>]

ProcOk == Proc(TRUE, <<>>, <<>>)

BuildOutcomes ==
    { ProcOk,
      Proc(FALSE, <<"src/health.ts(1,1): error TS2304">>, <<"npm ERR! code 2">>),
      Proc(FALSE, <<>>, <<"prebuild: ", "Test failed", " in lint.spec">>),
      NotStarted }

TestOutcomes == {ProcOk, Proc(FALSE, <<"1 failed">>, <<"FAIL __tests__">>)}

\* the message of the Error execSync throws: on a non-zero exit the command
\* and, when stderr was piped, what the process wrote to it; the spawn error
\* when the shell could not be started
ExecMessage(cmd, piped, p) ==
    IF ~p.started THEN <<"spawnSync /bin/sh ENOENT">>
    ELSE <<"Command failed: ", cmd>>
         \o (IF piped /\ p.stderr # <<>> THEN <<"\n">> \o p.stderr ELSE <<>>)

\* utils.ts:212-227
buildProjectUtils(p) ==
    IF p.ok THEN [success |-> TRUE, errorOutput |-> Undefined]
    ELSE [success |-> FALSE,
          errorOutput |->
            Some(Or(p.stdout,
                    Or(p.stderr, ExecMessage("npm run build", TRUE, p))))]

\* part_002:279-281  the message of the error buildProject throws
buildProjectPart002(p) == ExecMessage("npm run build", TRUE, p)

\* no call of buildProject yet
NotBuilt ==
    [state |-> "none", proc |-> ProcOk, success |-> "undefined",
     errorOutput |-> Undefined, message |-> <<>>]

\* a call of buildProject on a build that ended as p: the value it returned,
\* or the message of the error it threw
\*   utils.ts:212-227  returns { success, errorOutput } on every path
\*   part_002:279-281  returns nothing, and execSync's error leaves it
buildProject(v, p) ==
    IF v = "utils"
    THEN LET res == buildProjectUtils(p)
         IN [state |-> "returned", proc |-> p,
             success |-> IF res.success THEN "true" ELSE "false",
             errorOutput |-> res.errorOutput, message |-> <<>>]
    ELSE IF p.ok
    THEN [state |-> "returned", proc |-> p, success |-> "undefined",
          errorOutput |-> Undefined, message |-> <<>>]
    ELSE [state |-> "threw", proc |-> p, success |-> "undefined",
          errorOutput |-> Undefined, message |-> buildProjectPart002(p)]

\* part_002:362-371  the message of the error runTests throws
runTests(p) ==
    <<"Test failed", ": ">>
    \o ExecMessage("npm test -- --ci --runInBand", FALSE, p)

\* Feedback with the failure text cut to its first piece
FeedbackTruncated(buildError, testFailures) ==
    <<"Previous code generated errors:\n">>
    \o (IF Truthy(buildError) THEN SubSeq(buildError.text, 1, 1)
        ELSE IF testFailures.set THEN SubSeq(testFailures.text, 1, 1)
        ELSE <<"undefined">>)
    \o <<"\nPlease provide corrected code changes.">>

\* `Previous code generated errors:\n${buildError || testFailures}\n
\*  Please provide corrected code changes.`   utils.ts:383-385, part_002:206-208
Feedback(buildError, testFailures) ==
    <<"Previous code generated errors:\n">>
    \o (IF Truthy(buildError) THEN buildError.text
        ELSE IF testFailures.set THEN testFailures.text
        ELSE <<"undefined">>)
    \o <<"\nPlease provide corrected code changes.">>

IterationResult(n, p, resp, buildError, testFailures, files) ==
    [attempt |-> n, prompt |-> p, aiResponse |-> resp,
     buildError |-> buildError, testFailures |-> testFailures,
     changedFiles |-> files]

\* VerifyOutcomeUtils with the captured output alone as the error text
VerifyOutcomeUtilsCapturedOnly(p) ==
    LET errMsg == Or(p.stdout, p.stderr)
    IN IF p.ok
       THEN [buildError |-> Undefined, testFailures |-> Undefined, failed |-> FALSE]
       ELSE IF Includes(errMsg, "Test failed")
       THEN [buildError |-> Some(errMsg), testFailures |-> Some(errMsg),
             failed |-> TRUE]
       ELSE [buildError |-> Some(errMsg), testFailures |-> Undefined,
             failed |-> TRUE]

\* the outcome of utils.ts:354-392 for one build: the two error fields
VerifyOutcomeUtils(p) ==
    LET res == buildProjectUtils(p)
        errMsg == Or(res.errorOutput.text, <<"Error">>)
    IN IF res.success
       THEN [buildError |-> Undefined, testFailures |-> Undefined, failed |-> FALSE]
       ELSE IF Includes(errMsg, "Test failed")
       THEN [buildError |-> res.errorOutput, testFailures |-> Some(errMsg),
             failed |-> TRUE]
       ELSE [buildError |-> Some(errMsg), testFailures |-> Undefined,
             failed |-> TRUE]

\* the outcome of part_002:177-212 for one build and one test run
VerifyOutcomePart002(b, t) ==
    LET message == IF ~b.ok THEN buildProjectPart002(b) ELSE runTests(t)
    IN IF b.ok /\ t.ok
       THEN [buildError |-> Undefined, testFailures |-> Undefined, failed |-> FALSE]
       ELSE IF Includes(message, "Test failed")
       THEN [buildError |-> Undefined, testFailures |-> Some(message),
             failed |-> TRUE]
       ELSE [buildError |-> Some(message), testFailures |-> Undefined,
             failed |-> TRUE]

-----------------------------------------------------------------------------
(* Requests *)

RepoUrl == <<"https://github.com/acme/app.git">>

\* the model's answers the runs draw from
GoodBlock ==
    <<PathLine("src/health.ts"), ContentLine, Code("export const ok = 1")>>
FencedBlocks ==
    <<Code("Here are the changes:"),
      PathLine("src/health.ts"), ContentLineSp,
      Fence(<<"ts">>), Code("export const ok = 1"), Fence(<<>>),
      PathLine("src/app.ts"), ContentLine, Code("import './health'")>>
ManifestBlock ==
    <<PathLine("package.json"), ContentLine,
      JOpen, JSection("scripts"), JEntry("scripts", "build", "webpack"),
      JEntry("scripts", "test", "jest"), JClose>>
BadManifestBlocks ==
    <<PathLine("src/health.ts"), ContentLine, Code("export const ok = 1"),
      PathLine("package.json"), ContentLine, Code("add jest to devDependencies")>>

\* the answers drawn inside the retry loop
LoopResponses == {<<>>, GoodBlock, FencedBlocks, BadManifestBlocks}

\* the working tree a clone of the repository gives
EmptyTree == [p \in {} |-> <<>>]
SampleTree ==
    [p \in {"src/app.ts", "package.json"} |->
        IF p = "src/app.ts" THEN <<Code("export default app")>>
        ELSE <<JOpen, JTop("name", "app"), JSection("scripts"),
               JEntry("scripts", "build", "tsc"), JClose>>]

Task(repo, key, summary, description, tree) ==
    [issue |-> [repo |-> repo, issueKey |-> key, issueSummary |-> summary,
                issueDescription |-> description],
     tree |-> tree]

Tasks ==
    { Task(RepoUrl, <<"PROJ-1">>, <<"Health endpoint">>,
           <<"add a health endpoint">>, SampleTree),
      Task(RepoUrl, <<>>, <<>>, <<>>, EmptyTree),
      Task(<<>>, <<"PROJ-2">>, <<"Health endpoint">>,
           <<"add a health endpoint">>, EmptyTree) }

\* github_tokens.json before the first callback: no such file
NoTokensFile == [exists |-> FALSE, data |-> [u \in {} |-> ""]]

\* a Chroma server without collections, a temporary directory without entries
NoCollections == [n \in {} |-> {}]

\* part_002:60-62 and ai-developer.ts:34-48  the defaults of the optional fields
IssueKeyOf(v, i) ==
    Or(i.issueKey, IF v = "router" THEN <<"test-issue-key">> ELSE <<"temp-issue">>)
SummaryOf(v, i) ==
    Or(i.issueSummary, IF v = "router" THEN <<"Default summary">> ELSE <<"AI Task">>)
DescriptionOf(v, i) ==
    Or(i.issueDescription,
       IF v = "router" THEN <<"\n    Please create a basic Express.js server project. [...]\n  ">>
       ELSE <<"No description provided.">>)

\* git branch -r, as the remote can answer it
Remotes ==
    {{"origin/main"}, {"origin/master", "origin/dev"}, {"origin/dev"},
     {"origin/feature/main"}}
EndsWithMain(b) == b \in {"origin/main", "origin/feature/main"}
EndsWithMaster(b) == b \in {"origin/master"}

\* utils.ts:36-40 and 271-275
DefaultBranch(remoteBranches) ==
    IF \E b \in remoteBranches : EndsWithMain(b) THEN "main"
    ELSE IF \E b \in remoteBranches : EndsWithMaster(b) THEN "master"
    ELSE "null"

\* the remote has a branch of this name: git checkout <name> finds it
HasBranch(remoteBranches, name) ==
    \/ name = "main" /\ "origin/main" \in remoteBranches
    \/ name = "master" /\ "origin/master" \in remoteBranches

\* no git step yet
NoGit ==
    [op |-> "none", exists |-> FALSE, remoteBranches |-> {},
     checkout |-> "none"]

\* Math.floor(Math.random() * 1000)       part_002:137, ai-developer.ts:76
RandomCounts == {"0", "999"}

NoCalls ==
    [gather |-> 0, generate |-> 0, build |-> 0, test |-> 0, commit |-> 0,
     push |-> 0]

\* the counters count up to "more than MAX_RETRIES"
Called(what) ==
    [calls EXCEPT ![what] = IF @ > MAX_RETRIES THEN @ ELSE @ + 1]

\* one attempt's verification as the processes saw it
Outcome(b, t, testsRun) ==
    [build |-> b.ok,
     test |-> IF ~testsRun THEN "notrun" ELSE IF t.ok THEN "passed" ELSE "failed"]

NoResponse ==
    [status |-> 0, error |-> "none", changedFiles |-> <<>>, iterations |-> <<>>]

ErrorResponse(status, cause) ==
    [status |-> status, error |-> cause, changedFiles |-> <<>>,
     iterations |-> <<>>]

Init ==
    /\ tokensFile = NoTokensFile /\ requests = <<>>
    /\ variant \in Variants
    /\ \E t \in Tasks : issue = t.issue /\ disk = t.tree
    /\ chroma = NoCollections /\ tmpdir = NoCollections /\ handlers = <<>>
    /\ git = NoGit
    /\ hpc = "start"
    /\ pc = "idle"
    /\ attempt = 0
    /\ allChanged = <<>>
    /\ currentDescription = <<>>
    /\ iterations = <<>>
    /\ repoContext = <<>>
    /\ prompt = <<>>
    /\ aiResponse = <<>>
    /\ changed = <<>>
    /\ pendingTests = <<>>
    /\ testFiles = {}
    /\ branch = <<>>
    /\ calls = NoCalls
    /\ outcomes = <<>>
    /\ writes = <<>>
    /\ mkdirs = <<>>
    /\ built = NotBuilt
    /\ thrown = "none"
    /\ response = NoResponse

loopVars == <<attempt, allChanged, currentDescription, iterations, repoContext,
              prompt, aiResponse, changed>>

\* an error propagates to the router's catch: part_002:49-52, ai-developer.ts:155-158
Fails(cause) ==
    /\ thrown' = cause
    /\ hpc' = "error"
    /\ response' = ErrorResponse(500, cause)

-----------------------------------------------------------------------------
(* The task handler up to the loop *)

\* part_002:56-58 (handleAiTask) and ai-developer.ts:50-54
HandleRequest ==
    /\ hpc = "start"
    /\ IF issue.repo = <<>>
       THEN /\ thrown' = "missingRepo"
            /\ hpc' = "error"
            /\ response' = ErrorResponse(IF variant = "router" THEN 400 ELSE 500,
                                         "missingRepo")
       ELSE /\ hpc' = "prepare"
            /\ UNCHANGED <<thrown, response>>
    /\ UNCHANGED <<git, shared, built, mkdirs, variant, issue, outcomes, pc, loopVars, disk, pendingTests, testFiles,
                   branch, calls, writes>>

\* utils.ts:25-58, part_002:107-120, ai-developer.ts:63-74
PrepareRepositoryOn(exists, remoteBranches, gitOk) ==
    /\ hpc = "prepare"
    /\ LET detected == ~exists \/ variant # "utils"
                        \/ DefaultBranch(remoteBranches) # "null"
           checkedOut == \/ ~exists
                         \/ HasBranch(remoteBranches,
                                      IF variant = "utils"
                                      THEN DefaultBranch(remoteBranches)
                                      ELSE "main")
       IN IF ~detected THEN Fails("defaultBranch")
          ELSE IF ~(gitOk /\ checkedOut) THEN Fails("git")
          ELSE /\ hpc' = IF variant = "router" THEN "branch" ELSE "install"
               /\ UNCHANGED <<thrown, response>>
    /\ UNCHANGED <<shared, built, mkdirs, variant, issue, outcomes, pc, loopVars, disk, pendingTests, testFiles,
                   branch, calls, writes>>

PrepareRepository ==
    /\ \E exists \in BOOLEAN, remoteBranches \in Remotes, gitOk \in BOOLEAN :
         PrepareRepositoryOn(exists, remoteBranches, gitOk)
    /\ UNCHANGED git

\* utils.ts:60-72, part_002:122-134
installDependencies ==
    /\ hpc = "install"
    /\ \E npmCi \in BOOLEAN, npmInstall \in BOOLEAN :
         IF npmCi \/ npmInstall
         THEN hpc' = "branch" /\ UNCHANGED <<thrown, response>>
         ELSE Fails("install")
    /\ UNCHANGED <<git, shared, built, mkdirs, variant, issue, outcomes, pc, loopVars, disk, pendingTests, testFiles,
                   branch, calls, writes>>

\* the name of the branch: utils.ts:265, part_002:137-138, ai-developer.ts:76-77
BranchName(v, key, count) ==
    IF v = "utils" THEN <<"feature/">> \o key
    ELSE IF v = "part002" THEN <<"feature/">> \o key \o <<"-", count>>
    ELSE <<"feature/">> \o key \o <<count>>

\* utils.ts:261-299, part_002:136-143, ai-developer.ts:76-79; on success the
\* handler enters iterativeCodeGeneration (utils.ts:325-328) or, in the
\* single-shot handler, goes on to gather the context
createFeatureBranchOn(remoteBranches, gitOk, count) ==
    /\ hpc = "branch"
    /\ IF variant = "utils" /\ DefaultBranch(remoteBranches) = "null"
       THEN Fails("defaultBranch") /\ UNCHANGED <<branch, pc, loopVars>>
       ELSE IF \/ ~gitOk
               \/ /\ variant = "utils"
                  /\ ~HasBranch(remoteBranches, DefaultBranch(remoteBranches))
       THEN Fails("git") /\ UNCHANGED <<branch, pc, loopVars>>
       ELSE /\ branch' = BranchName(variant, IssueKeyOf(variant, issue), count)
            /\ hpc' = IF variant = "router" THEN "single" ELSE "loop"
            /\ pc' = "gather"
            /\ attempt' = 0
            /\ allChanged' = <<>>
            /\ currentDescription' = DescriptionOf(variant, issue)
            /\ iterations' = <<>>
            /\ UNCHANGED <<repoContext, prompt, aiResponse, changed, thrown,
                           response>>
    /\ UNCHANGED <<shared, built, mkdirs, variant, issue, outcomes, disk, pendingTests, testFiles, calls, writes>>

createFeatureBranch ==
    /\ \E remoteBranches \in Remotes, gitOk \in BOOLEAN, count \in RandomCounts :
         createFeatureBranchOn(remoteBranches, gitOk, count)
    /\ UNCHANGED git

-----------------------------------------------------------------------------
(* iterativeCodeGeneration *)

\* an error thrown inside the loop leaves it and reaches the router's catch
LoopThrows(cause) == Fails(cause) /\ pc' = "threw"

\* utils.ts:337-343, part_002:164-166: the retrieval returns and the prompt
\* is built from the digest; embedRepoFiles or searchRelevantFiles may reject
gatherRepoContext ==
    /\ hpc = "loop" /\ pc = "gather"
    /\ calls' = Called("gather")
    /\ \E ok \in BOOLEAN :
         IF SrcExists(disk) /\ ~ok
         THEN LoopThrows("retrieval") /\ UNCHANGED <<repoContext, prompt>>
         ELSE LET ctx == IF SrcExists(disk)
                         THEN Digest(searchRelevantFiles(disk, 1), 1)
                         ELSE NoFilesAvailable
              IN /\ repoContext' = ctx
                 /\ prompt' = buildPrompt(variant, ctx, SummaryOf(variant, issue),
                                          currentDescription)
                 /\ pc' = "generate"
                 /\ UNCHANGED <<hpc, thrown, response>>
    /\ UNCHANGED <<git, shared, built, mkdirs, variant, issue, outcomes, attempt, allChanged, currentDescription,
                   iterations, aiResponse, changed, disk, pendingTests,
                   testFiles, branch, writes>>

\* ai-developer.ts:81-129: every failure of stat, embedding or search is caught
RouterGather ==
    /\ hpc = "single" /\ pc = "gather"
    /\ calls' = Called("gather")
    /\ \E ok \in BOOLEAN :
         LET ctx == IF SrcExists(disk) /\ ok
                    THEN RouterDigest(searchRelevantFiles(disk, 1)) ELSE <<>>
         IN /\ repoContext' = ctx
            /\ prompt' = buildPrompt(variant, ctx, SummaryOf(variant, issue),
                                     currentDescription)
    /\ pc' = "generate"
    /\ UNCHANGED <<git, shared, built, mkdirs, variant, issue, outcomes, hpc, attempt, allChanged, currentDescription,
                   iterations, aiResponse, changed, disk, pendingTests,
                   testFiles, branch, writes, thrown, response>>

\* generateAiChange with a failed completion call retried at once
generateAiChangeRetried ==
    /\ hpc \in {"loop", "single"} /\ pc = "generate"
    /\ calls' = Called("generate")
    /\ \E ok \in BOOLEAN, resp \in LoopResponses :
         IF ok
         THEN aiResponse' = resp /\ pc' = "apply"
         ELSE pc' = "gather" /\ UNCHANGED aiResponse
    /\ UNCHANGED <<git, shared, built, mkdirs, variant, issue, outcomes, attempt, allChanged,
                   currentDescription, iterations, repoContext, prompt,
                   changed, disk, pendingTests, testFiles, branch, writes, hpc,
                   thrown, response>>

\* generateAiChange with a failed completion call caught inside the loop and
\* recorded as a failed attempt that gets a corrective retry
generateAiChangeRecorded ==
    /\ hpc \in {"loop", "single"} /\ pc = "generate"
    /\ calls' = Called("generate")
    /\ \E ok \in BOOLEAN, resp \in LoopResponses :
         IF ok
         THEN /\ aiResponse' = resp
              /\ pc' = "apply"
              /\ UNCHANGED <<hpc, thrown, response, iterations,
                             currentDescription, attempt>>
         ELSE /\ thrown' = "completion"
              /\ iterations' = Append(iterations,
                    IterationResult(attempt + 1, prompt, <<>>,
                                    Some(<<"completion failed">>), Undefined,
                                    <<>>))
              /\ currentDescription' =
                    Feedback(Some(<<"completion failed">>), Undefined)
              /\ attempt' = attempt + 1
              /\ IF attempt' < MAX_RETRIES /\ hpc = "loop"
                 THEN pc' = "gather" /\ UNCHANGED hpc
                 ELSE pc' = "returned" /\ hpc' = "commit"
              /\ UNCHANGED <<aiResponse, response>>
    /\ UNCHANGED <<git, shared, built, mkdirs, variant, issue, outcomes, allChanged, repoContext, prompt,
                   changed, disk, pendingTests, testFiles, branch, writes>>

\* utils.ts:301-309 and 345, part_002:168 and 269-277, ai-developer.ts:131-138
generateAiChange ==
    /\ hpc \in {"loop", "single"} /\ pc = "generate"
    /\ calls' = Called("generate")
    /\ \E ok \in BOOLEAN, resp \in LoopResponses :
         IF ok
         THEN /\ aiResponse' = resp
              /\ pc' = "apply"
              /\ UNCHANGED <<hpc, thrown, response>>
         ELSE LoopThrows("completion") /\ UNCHANGED aiResponse
    /\ UNCHANGED <<git, shared, built, mkdirs, variant, issue, outcomes, attempt, allChanged, currentDescription,
                   iterations, repoContext, prompt, changed, disk, pendingTests,
                   testFiles, branch, writes>>

applyAiChanges(v, d, resp, failAt) ==
    IF v = "utils" THEN applyAiChangesUtils(d, resp, failAt)
    ELSE IF v = "part002" THEN applyAiChangesPart002(d, resp, failAt)
    ELSE applyAiChangesRouter(d, resp, failAt)

NumBlocks(v, resp) ==
    IF v = "part002" THEN Len(RegexBlocks(resp, 1)) ELSE Len(SplitBlocks(resp, 1))

WritesOf(n, paths) == [i \in 1..Len(paths) |-> [attempt |-> n, path |-> paths[i]]]

MkdirsOf(n, dirs) == [i \in 1..Len(dirs) |-> [attempt |-> n, dir |-> dirs[i]]]

\* utils.ts:350-352, part_002:173-175, ai-developer.ts:141
ApplyStep ==
    /\ hpc \in {"loop", "single"} /\ pc = "apply"
    /\ \E failAt \in (-NumBlocks(variant, aiResponse))
                       ..NumBlocks(variant, aiResponse) :
         LET r == applyAiChanges(variant, disk, aiResponse, failAt)
         IN /\ disk' = r.disk
            /\ writes' = writes \o WritesOf(attempt + 1, r.changed)
            /\ mkdirs' = mkdirs \o MkdirsOf(attempt + 1, r.made)
            /\ IF r.threw # "none"
               THEN /\ LoopThrows(IF r.threw = "fs" THEN "applyFs" ELSE "applyJson")
                    /\ UNCHANGED <<changed, allChanged>>
               ELSE /\ changed' = r.changed
                    /\ allChanged' = SetAddAll(allChanged, r.changed)
                    /\ pc' = IF variant = "router" THEN "returned" ELSE "verify"
                    /\ hpc' = IF variant = "router" THEN "commit" ELSE hpc
                    /\ UNCHANGED <<thrown, response>>
    /\ UNCHANGED <<git, shared, built, variant, issue, outcomes, attempt,
                   currentDescription, iterations, repoContext, prompt,
                   aiResponse, pendingTests, testFiles, branch, calls>>

\* EndIteration with the loop test written attempt <= MAX_RETRIES
EndIterationOffByOne(o) ==
    /\ iterations' = Append(iterations,
          IterationResult(attempt + 1, prompt, aiResponse, o.buildError,
                          o.testFailures, changed))
    /\ IF o.failed
       THEN /\ currentDescription' = Feedback(o.buildError, o.testFailures)
            /\ attempt' = attempt + 1
       ELSE UNCHANGED <<currentDescription, attempt>>
    /\ IF (~Truthy(o.buildError) /\ ~Truthy(o.testFailures))
          \/ ~(attempt' <= MAX_RETRIES)
       THEN pc' = "returned" /\ hpc' = "commit"
       ELSE pc' = "gather" /\ UNCHANGED hpc

\* EndIteration without the break after an error-free attempt
EndIterationNoBreak(o) ==
    /\ iterations' = Append(iterations,
          IterationResult(attempt + 1, prompt, aiResponse, o.buildError,
                          o.testFailures, changed))
    /\ IF o.failed
       THEN /\ currentDescription' = Feedback(o.buildError, o.testFailures)
            /\ attempt' = attempt + 1
       ELSE UNCHANGED <<currentDescription, attempt>>
    /\ IF ~(attempt' < MAX_RETRIES)
       THEN pc' = "returned" /\ hpc' = "commit"
       ELSE pc' = "gather" /\ UNCHANGED hpc

\* EndIteration with the error of a failed last attempt thrown on to the
\* caller instead of being recorded
EndIterationRethrows(o) ==
    IF o.failed /\ attempt + 1 = MAX_RETRIES
    THEN /\ pc' = "threw" /\ hpc' = "error"
         /\ UNCHANGED <<iterations, currentDescription, attempt>>
    ELSE /\ iterations' = Append(iterations,
               IterationResult(attempt + 1, prompt, aiResponse, o.buildError,
                               o.testFailures, changed))
         /\ IF o.failed
            THEN /\ currentDescription' = Feedback(o.buildError, o.testFailures)
                 /\ attempt' = attempt + 1
            ELSE UNCHANGED <<currentDescription, attempt>>
         /\ IF ~Truthy(o.buildError) /\ ~Truthy(o.testFailures)
            THEN pc' = "returned" /\ hpc' = "commit"
            ELSE pc' = "gather" /\ UNCHANGED hpc

\* EndIteration with the feedback appended to the description it had
EndIterationAccumulates(o) ==
    /\ iterations' = Append(iterations,
          IterationResult(attempt + 1, prompt, aiResponse, o.buildError,
                          o.testFailures, changed))
    /\ IF o.failed
       THEN /\ currentDescription' =
                 currentDescription \o <<"\n">>
                 \o Feedback(o.buildError, o.testFailures)
            /\ attempt' = attempt + 1
       ELSE UNCHANGED <<currentDescription, attempt>>
    /\ IF (~Truthy(o.buildError) /\ ~Truthy(o.testFailures))
          \/ ~(attempt' < MAX_RETRIES)
       THEN pc' = "returned" /\ hpc' = "commit"
       ELSE pc' = "gather" /\ UNCHANGED hpc

\* the end of one iteration: the push of the entry (utils.ts:394-401), the
\* break (403-405), the loop test (330) and the return (408)
EndIteration(o) ==
    /\ iterations' = Append(iterations,
          IterationResult(attempt + 1, prompt, aiResponse, o.buildError,
                          o.testFailures, changed))
    /\ IF o.failed
       THEN /\ currentDescription' = Feedback(o.buildError, o.testFailures)
            /\ attempt' = attempt + 1
       ELSE UNCHANGED <<currentDescription, attempt>>
    /\ IF (~Truthy(o.buildError) /\ ~Truthy(o.testFailures))
          \/ ~(attempt' < MAX_RETRIES)
       THEN pc' = "returned" /\ hpc' = "commit"
       ELSE pc' = "gather" /\ UNCHANGED hpc

\* utils.ts:354-406
VerifyUtils ==
    /\ hpc = "loop" /\ pc = "verify" /\ variant = "utils"
    /\ calls' = Called("build")
    /\ \E p \in BuildOutcomes :
         /\ outcomes' = Append(outcomes, Outcome(p, ProcOk, FALSE))
         /\ built' = buildProject(variant, p)
         /\ EndIteration(VerifyOutcomeUtils(p))
    /\ UNCHANGED <<git, shared, mkdirs, variant, issue, allChanged, repoContext, prompt, aiResponse,
                   changed, disk, pendingTests, testFiles, branch, writes,
                   thrown, response>>

\* part_002:177-223: generateTests is called without await, so after a
\* successful build its file writes are still to come when runTests runs
VerifyPart002 ==
    /\ hpc = "loop" /\ pc = "verify" /\ variant = "part002"
    /\ \E b \in BuildOutcomes, t \in TestOutcomes :
         /\ calls' = IF b.ok THEN [Called("build") EXCEPT !.test = @ + 1]
                     ELSE Called("build")
         /\ pendingTests' = IF b.ok /\ changed # <<>>
                            THEN Append(pendingTests, changed)
                            ELSE pendingTests
         /\ outcomes' = Append(outcomes, Outcome(b, t, b.ok))
         /\ built' = buildProject(variant, b)
         /\ EndIteration(VerifyOutcomePart002(b, t))
    /\ UNCHANGED <<git, shared, mkdirs, variant, issue, allChanged, repoContext, prompt, aiResponse,
                   changed, disk, testFiles, branch, writes, thrown, response>>

\* part_002:327-357: a generateTests call that was left running writes its
\* test files while the handler is suspended in an await
WriteTestFile ==
    /\ pc # "verify"
    /\ \E i \in 1..Len(pendingTests) :
         /\ testFiles' = testFiles \cup SeqToSet(pendingTests[i])
         /\ pendingTests' = SubSeq(pendingTests, 1, i - 1)
                            \o SubSeq(pendingTests, i + 1, Len(pendingTests))
    /\ UNCHANGED <<git, shared, built, mkdirs, variant, issue, outcomes, hpc, pc, loopVars, disk, branch,
                   calls, writes, thrown, response>>

-----------------------------------------------------------------------------
(* Commit and push *)

\* CommitChanges run only when the last attempt was recorded without an error
CommitChangesOnSuccess ==
    /\ hpc = "commit"
    /\ IF iterations = <<>> THEN TRUE
       ELSE /\ ~Truthy(iterations[Len(iterations)].buildError)
            /\ ~Truthy(iterations[Len(iterations)].testFailures)
    /\ \E ok \in BOOLEAN :
         IF ok
         THEN /\ calls' = Called("commit")
              /\ hpc' = "push"
              /\ UNCHANGED <<thrown, response>>
         ELSE Fails("commit") /\ UNCHANGED calls
    /\ UNCHANGED <<git, shared, built, mkdirs, variant, issue, outcomes, pc, loopVars, disk, pendingTests,
                   testFiles, branch, writes>>

\* CommitChanges run from a finally block: also after the handler has failed
CommitChangesAlways ==
    /\ hpc \in {"commit", "error"}
    /\ calls.commit = 0
    /\ calls' = Called("commit")
    /\ hpc' = IF hpc = "commit" THEN "push" ELSE hpc
    /\ UNCHANGED <<git, shared, built, mkdirs, variant, issue, outcomes, pc, loopVars, disk, pendingTests,
                   testFiles, branch, writes, thrown, response>>

\* part_002:93-96, ai-developer.ts:144-147
CommitChanges ==
    /\ hpc = "commit"
    /\ \E ok \in BOOLEAN :
         IF ok
         THEN /\ calls' = Called("commit")
              /\ hpc' = "push"
              /\ UNCHANGED <<thrown, response>>
         ELSE Fails("commit") /\ UNCHANGED calls
    /\ UNCHANGED <<git, shared, built, mkdirs, variant, issue, outcomes, pc, loopVars, disk, pendingTests, testFiles,
                   branch, writes>>

\* part_002:97-104, ai-developer.ts:148-154
PushBranch ==
    /\ hpc = "push"
    /\ \E ok \in BOOLEAN :
         IF ok
         THEN /\ calls' = Called("push")
              /\ hpc' = "done"
              /\ response' =
                   [status |-> 200, error |-> "none",
                    changedFiles |-> IF variant = "router" THEN changed
                                     ELSE allChanged,
                    iterations |-> iterations]
              /\ UNCHANGED thrown
         ELSE Fails("push") /\ UNCHANGED calls
    /\ UNCHANGED <<git, shared, built, mkdirs, variant, issue, outcomes, pc, loopVars, disk, pendingTests, testFiles,
                   branch, writes>>

Next ==
    \/ HandleRequest
    \/ PrepareRepository
    \/ installDependencies
    \/ createFeatureBranch
    \/ gatherRepoContext
    \/ RouterGather
    \/ generateAiChange
    \/ ApplyStep
    \/ VerifyUtils
    \/ VerifyPart002
    \/ WriteTestFile
    \/ CommitChanges
    \/ PushBranch

Spec == Init /\ [][Next]_vars

\* weak fairness of ApplyStep, with ENABLED <<ApplyStep>>_vars written as the
\* guard of the step: the step is defined for every response and every
\* outcome of the file system
ApplySettles ==
    []<>~(hpc = "loop" /\ pc = "apply") \/ []<><<ApplyStep>>_vars

\* each step of the retry loop awaits an external call (retrieval, completion,
\* file system, build and test processes) that settles in finite time
FairSpec ==
    /\ Spec
    /\ WF_vars(gatherRepoContext)
    /\ WF_vars(generateAiChange)
    /\ ApplySettles
    /\ WF_vars(VerifyUtils)
    /\ WF_vars(VerifyPart002)

\* the git commands of the handler after the loop (part_002:93-97) are
\* awaited one after the other and each settles in finite time
FairHandler ==
    /\ FairSpec
    /\ WF_vars(CommitChanges)
    /\ WF_vars(PushBranch)

-----------------------------------------------------------------------------
(* applyAiChanges on its own: one call on each response of a family *)

\* the largest number of file blocks in a response of the family
MaxBlocks == 2

\* the file blocks a response is made of
BlockShapes ==
    LET PlainBlock ==
            <<PathLine("src/health.ts"), ContentLine, Code("export const ok = 1")>>
        FencedBlock ==
            <<PathLine("src/app.ts"), ContentLine,
              Fence(<<"ts">>), Code("import './health'"), Fence(<<>>)>>
        NoMarkerBlock == <<PathLine("src/app.ts"), Code("no content marker")>>
        PlaceholderBlock ==
            <<PathLine("<relative/path>"), ContentLine, Code("entire file content")>>
        AngleBlock ==
            <<PathLine("src/a<b.ts"), ContentLine, Code("export const lt = 1")>>
        BadManifestBlock ==
            <<PathLine("package.json"), ContentLine,
              Code("add jest to devDependencies")>>
        EmptyBlock == <<PathLine("src/health.ts"), ContentLine>>
        \* the manifest named by paths that are not the string "package.json"
        DotManifestBlock ==
            <<PathLine("./package.json"), ContentLine,
              JOpen, JTop("name", "other"), JClose>>
        ParentManifestBlock ==
            <<PathLine("src/../package.json"), ContentLine,
              JOpen, JSection("scripts"), JEntry("scripts", "build", "webpack"),
              JClose>>
        \* a path that climbs out of the working directory, and an absolute one
        EscapeBlock == <<PathLine("../outside.ts"), ContentLine, Code("export {}")>>
        AbsoluteBlock == <<PathLine("/etc/cron.d/job"), ContentLine, Code("* * * * *")>>
        DepsManifestBlock ==
            <<PathLine("package.json"), ContentLine,
              JOpen, JTop("name", "other"),
              JSection("dependencies"), JEntry("dependencies", "express", "5"),
              JSection("devDependencies"), JEntry("devDependencies", "jest", "29"),
              JClose>>
    IN {PlainBlock, FencedBlock, NoMarkerBlock, PlaceholderBlock, AngleBlock,
        ManifestBlock, BadManifestBlock, EmptyBlock, DepsManifestBlock,
        DotManifestBlock, ParentManifestBlock, EscapeBlock, AbsoluteBlock}

RECURSIVE Flatten(_)
Flatten(ss) == IF ss = <<>> THEN <<>> ELSE Head(ss) \o Flatten(Tail(ss))

\* up to MaxBlocks blocks one after the other, the text ending with the last
\* block or with a newline after it
ApplyResponses ==
    {Flatten(bs) \o tail :
        bs \in UNION {[1..k -> BlockShapes] : k \in 0..MaxBlocks},
        tail \in {<<>>, <<BlankLine>>}}

\* a working tree with nothing but a manifest that has dependencies
DepsTree ==
    [p \in {"package.json"} |->
        <<JOpen, JTop("name", "app"), JTop("version", "1.0.0"),
          JSection("dependencies"), JEntry("dependencies", "express", "4"),
          JClose>>]

\* the handler has created the branch, gathered the context and received the
\* response of its first attempt
ApplyInit ==
    /\ tokensFile = NoTokensFile /\ requests = <<>>
    /\ variant \in Variants
    /\ issue = Task(RepoUrl, <<"PROJ-1">>, <<"Health endpoint">>,
                    <<"add a health endpoint">>, SampleTree).issue
    /\ disk \in {EmptyTree, SampleTree, DepsTree}
    /\ chroma = NoCollections /\ tmpdir = NoCollections /\ handlers = <<>>
    /\ git = NoGit
    /\ aiResponse \in ApplyResponses
    /\ hpc = IF variant = "router" THEN "single" ELSE "loop"
    /\ pc = "apply"
    /\ attempt = 0
    /\ allChanged = <<>>
    /\ currentDescription = DescriptionOf(variant, issue)
    /\ iterations = <<>>
    /\ repoContext =
         IF ~SrcExists(disk)
         THEN (IF variant = "router" THEN <<>> ELSE NoFilesAvailable)
         ELSE IF variant = "router"
         THEN RouterDigest(searchRelevantFiles(disk, 1))
         ELSE Digest(searchRelevantFiles(disk, 1), 1)
    /\ prompt = buildPrompt(variant, repoContext, SummaryOf(variant, issue),
                            currentDescription)
    /\ changed = <<>>
    /\ pendingTests = <<>>
    /\ testFiles = {}
    /\ branch = BranchName(variant, IssueKeyOf(variant, issue), "0")
    /\ calls = [NoCalls EXCEPT !.gather = 1, !.generate = 1]
    /\ outcomes = <<>>
    /\ writes = <<>>
    /\ mkdirs = <<>>
    /\ built = NotBuilt
    /\ thrown = "none"
    /\ response = NoResponse

ApplySpec == ApplyInit /\ [][ApplyStep]_vars

-----------------------------------------------------------------------------
(* Context gathering on its own: the first attempt gathers its context,
   builds its prompt and asks the model, on repositories small and large *)

\* the number of characters of a text (String.prototype.length)
RECURSIVE TextLen(_)
TextLen(text) == IF text = <<>> THEN 0 ELSE Len(Head(text)) + TextLen(Tail(text))

\* a source line of 1000 characters
LongLine ==
    Code("// 0123456789 abcdefghijklmnopqrstuvwxyz ABCDEFGHIJKLM// 0123456789 abcdefghijklmnopqrstuvwxyz ABCDEFGHIJKLM// 0123456789 abcdefghijklmnopqrstuvwxyz ABCDEFGHIJKLM// 0123456789 abcdefghijklmnopqrstuvwxyz ABCDEFGHIJKLM// 0123456789 abcdefghijklmnopqrstuvwxyz ABCDEFGHIJKLM// 0123456789 abcdefghijklmnopqrstuvwxyz ABCDEFGHIJKLM// 0123456789 abcdefghijklmnopqrstuvwxyz ABCDEFGHIJKLM// 0123456789 abcdefghijklmnopqrstuvwxyz ABCDEFGHIJKLM// 0123456789 abcdefghijklmnopqrstuvwxyz ABCDEFGHIJKLM// 0123456789 abcdefghijklmnopqrstuvwxyz ABCDEFGHIJKLM// 0123456789 abcdefghijklmnopqrstuvwxyz ABCDEFGHIJKLM// 0123456789 abcdefghijklmnopqrstuvwxyz ABCDEFGHIJKLM// 0123456789 abcdefghijklmnopqrstuvwxyz ABCDEFGHIJKLM// 0123456789 abcdefghijklmnopqrstuvwxyz ABCDEFGHIJKLM// 0123456789 abcdefghijklmnopqrstuvwxyz ABCDEFGHIJKLM// 0123456789 abcdefghijklmnopqrstuvwxyz ABCDEFGHIJKLM// 0123456789 abcdefghijklmnopqrstuvwxyz ABCDEFGHIJKLM// 0123456789 abcdefghijklmnopqrstuvwxyz ABCDEFGHIJKLM// 0123456789 abcdefghijklmn")

\* a working tree whose source files hold more text than MAX_PROMPT_LENGTH
BigTree ==
    [p \in {"src/app.ts", "src/health.ts"} |->
        IF p = "src/app.ts"
        THEN <<Code("export default app"), LongLine, LongLine, LongLine,
               LongLine, LongLine>>
        ELSE <<LongLine, LongLine, LongLine, LongLine>>]

\* the handler has created the branch and enters its first attempt
GatherInit ==
    /\ tokensFile = NoTokensFile /\ requests = <<>>
    /\ variant \in Variants
    /\ \E t \in {u \in Tasks : u.issue.repo # <<>>} : issue = t.issue
    /\ disk \in {EmptyTree, SampleTree, BigTree}
    /\ chroma = NoCollections /\ tmpdir = NoCollections /\ handlers = <<>>
    /\ git = NoGit
    /\ hpc = IF variant = "router" THEN "single" ELSE "loop"
    /\ pc = "gather"
    /\ attempt = 0
    /\ allChanged = <<>>
    /\ currentDescription = DescriptionOf(variant, issue)
    /\ iterations = <<>>
    /\ repoContext = <<>>
    /\ prompt = <<>>
    /\ aiResponse = <<>>
    /\ changed = <<>>
    /\ pendingTests = <<>>
    /\ testFiles = {}
    /\ branch \in {BranchName(variant, IssueKeyOf(variant, issue), c) :
                     c \in RandomCounts}
    /\ calls = NoCalls
    /\ outcomes = <<>>
    /\ writes = <<>>
    /\ mkdirs = <<>>
    /\ built = NotBuilt
    /\ thrown = "none"
    /\ response = NoResponse

GatherNext == gatherRepoContext \/ RouterGather \/ generateAiChange

GatherSpec == GatherInit /\ [][GatherNext]_vars

-----------------------------------------------------------------------------
(* The retrieval collection: vectorStore.ts.  A name is a sequence of
   characters *)

\* [a-zA-Z0-9] and [a-zA-Z0-9._-]
AlphaNum(c) ==
    LET Lower ==
            {"a", "b", "c", "d", "e", "f", "g", "h", "i", "j", "k", "l", "m", "n",
             "o", "p", "q", "r", "s", "t", "u", "v", "w", "x", "y", "z"}
        Upper ==
            {"A", "B", "C", "D", "E", "F", "G", "H", "I", "J", "K", "L", "M", "N",
             "O", "P", "Q", "R", "S", "T", "U", "V", "W", "X", "Y", "Z"}
        Digits == {"0", "1", "2", "3", "4", "5", "6", "7", "8", "9"}
    IN c \in Lower \cup Upper \cup Digits
NameChar(c) == AlphaNum(c) \/ c \in {".", "_", "-"}

\* a number for each piece of a text: a character's rank among the
\* characters the inputs use, the length of a longer piece
Charset ==
    <<"a", "b", "c", "d", "e", "f", "g", "h", "i", "j", "k", "l", "m", "n",
      "o", "p", "q", "r", "s", "t", "u", "v", "w", "x", "y", "z", "P", "R",
      "O", "J", "0", "1", "2", "3", "4", "5", "6", "7", "8", "9", ".", "_",
      "-", " ", "/", "\n", "!", ":">>
CharCode(c) ==
    IF \E i \in 1..Len(Charset) : Charset[i] = c
    THEN CHOOSE i \in 1..Len(Charset) : Charset[i] = c
    ELSE 100 + Len(c)

RECURSIVE Checksum(_, _, _)
Checksum(text, j, i) ==
    IF j > Len(text) THEN 0
    ELSE (CharCode(text[j]) * (i + j) + Checksum(text, j + 1, i)) % 16

\* crypto.createHash("md5").update(text).digest("hex"): 32 hexadecimal
\* digits that depend on every character of the text (a checksum stands for
\* the digest)
Md5Hex(text) ==
    LET HexDigits ==
            <<"0", "1", "2", "3", "4", "5", "6", "7", "8", "9", "a", "b", "c", "d",
              "e", "f">>
    IN [i \in 1..32 |-> HexDigits[Checksum(text, 1, i) + 1]]

\* collectionName.replace(/[^a-zA-Z0-9._-]/g, "_")      vectorStore.ts:20
ReplaceInvalid(name) ==
    [i \in 1..Len(name) |-> IF NameChar(name[i]) THEN name[i] ELSE "_"]

\* safeName.padEnd(3, "x")                               vectorStore.ts:28
RECURSIVE PadEnd(_, _, _)
PadEnd(name, n, c) ==
    IF Len(name) >= n THEN name ELSE PadEnd(Append(name, c), n, c)

\* SafeName without its second step: the first and the last character are
\* left as the replacement made them
SafeNameUnbounded(collectionName) ==
    LET replaced == ReplaceInvalid(collectionName)
    IN IF Len(replaced) < 3 THEN PadEnd(replaced, 3, "x")
       ELSE IF Len(replaced) > 64 THEN Md5Hex(collectionName)
       ELSE replaced

\* vectorStore.ts:19-32  the name handed to chroma.getOrCreateCollection
SafeName(collectionName) ==
    LET replaced == ReplaceInvalid(collectionName)
        started == IF replaced # <<>> /\ AlphaNum(replaced[1])
                   THEN replaced ELSE <<"a">> \o replaced
        ended == IF AlphaNum(started[Len(started)])
                 THEN started ELSE Append(started, "z")
    IN IF Len(ended) < 3 THEN PadEnd(ended, 3, "x")
       ELSE IF Len(ended) > 64 THEN Md5Hex(collectionName)
       ELSE ended

-----------------------------------------------------------------------------
(* Two requests served side by side by one process, on two repositories:
   each handler clones, indexes, retrieves, builds its prompt and applies the
   response; the awaits let their steps interleave in any order *)

ServiceUrl == <<"https://github.com/acme/service.git">>

\* what git.clone(repoUrl, localPath) puts in the working directory
Remote(url) ==
    LET ServiceTree ==
            [p \in {"src/health.ts", "package.json"} |->
                IF p = "src/health.ts" THEN <<Code("export const service = 1")>>
                ELSE <<JOpen, JTop("name", "service"), JClose>>]
    IN IF url = RepoUrl THEN SampleTree ELSE ServiceTree

IssueKeys == {<<"P", "-", "1">>, <<"P", "-", "2">>}
Descriptions == {<<"a", "d", "d">>, <<"r", "u", "n">>}

\* path.join(os.tmpdir(), "ai-assist-repos", `${issueKey}-${hash}`)
\*   part_002:66-71, ai-developer.ts:56-61
LocalPath(issueKey, repoUrl) ==
    <<"/tmp/ai-assist-repos/">> \o issueKey \o <<"-">> \o Md5Hex(repoUrl)

\* the collectionName handed to embedRepoFiles
\*   utils.ts:337-340 with 90  `${summary}\n\n${currentDescription}`
\*   part_002:164 with 234, ai-developer.ts:88  issueKey
CollectionKey(v, i) ==
    IF v = "utils"
    THEN SummaryOf(v, i) \o <<"\n", "\n">> \o DescriptionOf(v, i)
    ELSE IssueKeyOf(v, i)

Handler(i) ==
    [issue |-> i, pc |-> "start", localPath |-> <<>>,
     collectionName |-> <<>>, collection |-> <<>>,
     repoContext |-> <<>>, prompt |-> <<>>]

\* path.resolve(dir, entry.name)                        vectorStore.ts:80
FilePath(localPath, p) == localPath \o <<"/", p>>

\* vectorStore.ts:39-51  one document per non-blank source file of the tree
Documents(localPath, tree) ==
    {[id |-> FilePath(localPath, p), content |-> JoinLines(tree[p], 1)] :
        p \in {q \in DOMAIN tree : UnderSrc(q) /\ Trim(tree[q]) # <<>>}}

\* vectorStore.ts:61-73  the documents of the collection, nearest first: by
\* the relevance of the file name, then by working directory
RECURSIVE Nearest(_, _, _)
Nearest(docs, dirs, n) ==
    IF n > Len(RelevanceOrder) * Len(dirs) THEN <<>>
    ELSE LET id == FilePath(dirs[((n - 1) % Len(dirs)) + 1],
                            RelevanceOrder[((n - 1) \div Len(dirs)) + 1])
             hit == {d \in docs : d.id = id}
         IN (IF hit = {} THEN <<>>
             ELSE <<[path |-> id, content |-> (CHOOSE d \in hit : TRUE).content]>>)
            \o Nearest(docs, dirs, n + 1)

\* Digest and RouterDigest for files named by their absolute path
RECURSIVE DigestOfStore(_, _, _)
DigestOfStore(v, relevant, i) ==
    IF i > Len(relevant) THEN <<>>
    ELSE (IF i > 1 THEN <<"\n">> ELSE <<>>)
         \o (IF v = "router"
             THEN <<"--- File ", ToString(i), " ---\n content:">>
                  \o relevant[i].content
                  \o <<" ---\n path: ">> \o relevant[i].path
             ELSE <<"--- File ", ToString(i), " (">> \o relevant[i].path
                  \o <<") ---\n">> \o relevant[i].content)
         \o DigestOfStore(v, relevant, i + 1)

taskVars ==
    <<variant, issue, hpc, pc, attempt, allChanged, currentDescription,
      iterations, repoContext, prompt, aiResponse, changed, disk,
      pendingTests, testFiles, branch, calls, outcomes, writes, mkdirs,
      built, git, thrown, response>>

ConcInit ==
    /\ tokensFile = NoTokensFile /\ requests = <<>>
    /\ variant \in Variants
    /\ issue = Task(RepoUrl, <<"PROJ-1">>, <<"Health endpoint">>,
                    <<"add a health endpoint">>, SampleTree).issue
    /\ disk = EmptyTree
    /\ chroma = NoCollections /\ tmpdir = NoCollections /\ git = NoGit
    /\ \E k1 \in IssueKeys, k2 \in IssueKeys, s \in {<<"f", "i", "x">>},
          d1 \in Descriptions, d2 \in Descriptions :
         handlers = <<Handler(Task(RepoUrl, k1, s, d1, EmptyTree).issue),
                      Handler(Task(ServiceUrl, k2, s, d2, EmptyTree).issue)>>
    /\ hpc = "start" /\ pc = "idle" /\ attempt = 0
    /\ allChanged = <<>> /\ currentDescription = <<>> /\ iterations = <<>>
    /\ repoContext = <<>> /\ prompt = <<>> /\ aiResponse = <<>>
    /\ changed = <<>> /\ pendingTests = <<>> /\ testFiles = {}
    /\ branch = <<>> /\ calls = NoCalls /\ outcomes = <<>>
    /\ writes = <<>> /\ mkdirs = <<>> /\ built = NotBuilt
    /\ thrown = "none" /\ response = NoResponse

\* part_002:66-75 and 107-120, ai-developer.ts:56-74
Clone(h) ==
    /\ handlers[h].pc = "start"
    /\ LET i == handlers[h].issue
           localPath == LocalPath(IssueKeyOf(variant, i), i.repo)
       IN /\ tmpdir' = IF localPath \in DOMAIN tmpdir THEN tmpdir
                       ELSE (localPath :> Remote(i.repo)) @@ tmpdir
          /\ handlers' = [handlers EXCEPT ![h].pc = "gather",
                                          ![h].localPath = localPath]
    /\ UNCHANGED <<chroma, taskVars, tokensFile, requests>>

\* utils.ts:86-90, part_002:231-234, ai-developer.ts:84-88 with
\* vectorStore.ts:15-54
embedRepoFiles(h, collectionName) ==
    /\ handlers[h].pc = "gather"
    /\ LET me == handlers[h]
           tree == tmpdir[me.localPath]
           name == SafeName(collectionName)
           ctx == IF variant = "router" THEN <<>> ELSE NoFilesAvailable
       IN IF ~SrcExists(tree)
          THEN /\ handlers' =
                    [handlers EXCEPT
                       ![h].pc = "apply", ![h].repoContext = ctx,
                       ![h].prompt =
                          buildPrompt(variant, ctx, SummaryOf(variant, me.issue),
                                      DescriptionOf(variant, me.issue))]
               /\ UNCHANGED chroma
          ELSE /\ chroma' =
                    [n \in DOMAIN chroma \cup {name} |->
                       (IF n \in DOMAIN chroma THEN chroma[n] ELSE {})
                       \cup (IF n = name THEN Documents(me.localPath, tree)
                             ELSE {})]
               /\ handlers' = [handlers EXCEPT
                                  ![h].pc = "search",
                                  ![h].collectionName = collectionName,
                                  ![h].collection = name]
    /\ UNCHANGED <<tmpdir, taskVars, tokensFile, requests>>

Embed(h) == embedRepoFiles(h, CollectionKey(variant, handlers[h].issue))

\* utils.ts:92-99, part_002:235-243, ai-developer.ts:90-103 with
\* vectorStore.ts:56-74, then the prompt
Search(h) ==
    /\ handlers[h].pc = "search"
    /\ LET me == handlers[h]
           dirs == [k \in 1..Len(handlers) |-> handlers[k].localPath]
           relevant == Nearest(chroma[me.collection], dirs, 1)
           ctx == (IF variant = "router" THEN <<"Top relevant files:\n">>
                   ELSE <<>>) \o DigestOfStore(variant, relevant, 1)
       IN handlers' =
            [handlers EXCEPT
               ![h].pc = "apply", ![h].repoContext = ctx,
               ![h].prompt =
                  buildPrompt(variant, ctx, SummaryOf(variant, me.issue),
                              DescriptionOf(variant, me.issue))]
    /\ UNCHANGED <<chroma, tmpdir, taskVars, tokensFile, requests>>

\* utils.ts:345-350, part_002:168-173, ai-developer.ts:131-141: the response
\* is written under the handler's working directory
Apply(h) ==
    /\ handlers[h].pc = "apply"
    /\ \E resp \in {<<>>, GoodBlock} :
         LET localPath == handlers[h].localPath
         IN tmpdir' = [tmpdir EXCEPT ![localPath] =
                          applyAiChanges(variant, @, resp, 0).disk]
    /\ handlers' = [handlers EXCEPT ![h].pc = "done"]
    /\ UNCHANGED <<chroma, taskVars, tokensFile, requests>>

ConcNext ==
    \/ \E h \in 1..Len(handlers) : Clone(h)
    \/ \E h \in 1..Len(handlers) : Embed(h)
    \/ \E h \in 1..Len(handlers) : Search(h)
    \/ \E h \in 1..Len(handlers) : Apply(h)

ConcSpec == ConcInit /\ [][ConcNext]_vars

-----------------------------------------------------------------------------
(* The git steps on their own, with what each of them saw and checked out
   kept in git *)

\* the name handed to git.checkout when the step gets that far
\*   utils.ts:36-50 and 271-288  the detected branch
\*   part_002:112, ai-developer.ts:68  "main"
CheckedOut(detects, remoteBranches) ==
    IF ~detects THEN "main"
    ELSE IF DefaultBranch(remoteBranches) = "null" THEN "none"
    ELSE DefaultBranch(remoteBranches)

GitInit ==
    /\ tokensFile = NoTokensFile /\ requests = <<>>
    /\ variant \in Variants
    /\ \E t \in {u \in Tasks : u.issue.repo # <<>>} :
         issue = t.issue /\ disk = t.tree
    /\ chroma = NoCollections /\ tmpdir = NoCollections /\ handlers = <<>>
    /\ git = NoGit
    /\ hpc = "prepare" /\ pc = "idle" /\ attempt = 0
    /\ allChanged = <<>> /\ currentDescription = <<>> /\ iterations = <<>>
    /\ repoContext = <<>> /\ prompt = <<>> /\ aiResponse = <<>>
    /\ changed = <<>> /\ pendingTests = <<>> /\ testFiles = {}
    /\ branch = <<>> /\ calls = NoCalls /\ outcomes = <<>>
    /\ writes = <<>> /\ mkdirs = <<>> /\ built = NotBuilt
    /\ thrown = "none" /\ response = NoResponse

PrepareRepositoryObserved ==
    \E exists \in BOOLEAN, remoteBranches \in Remotes, gitOk \in BOOLEAN :
       /\ PrepareRepositoryOn(exists, remoteBranches, gitOk)
       /\ git' = [op |-> "prepare", exists |-> exists,
                  remoteBranches |-> remoteBranches,
                  checkout |-> IF exists
                               THEN CheckedOut(variant = "utils", remoteBranches)
                               ELSE "none"]

createFeatureBranchObserved ==
    \E remoteBranches \in Remotes, gitOk \in BOOLEAN, count \in RandomCounts :
       /\ createFeatureBranchOn(remoteBranches, gitOk, count)
       /\ git' = [op |-> "branch", exists |-> TRUE,
                  remoteBranches |-> remoteBranches,
                  checkout |-> IF variant = "utils"
                               THEN CheckedOut(TRUE, remoteBranches)
                               ELSE "none"]

GitNext ==
    \/ PrepareRepositoryObserved
    \/ installDependencies
    \/ createFeatureBranchObserved

GitSpec == GitInit /\ [][GitNext]_vars

-----------------------------------------------------------------------------
(* embedRepoFiles called with any collection key *)

MaxShortKey == 2

CollectionKeys ==
    LET KeyChars == {"a", "Z", "7", ".", "_", "-", " ", "/"}
        \* the keys of at most MaxShortKey characters, and keys around the length
        \* limit of 64 with each kind of first and last character
        ShortKeys == UNION {[1..n -> KeyChars] : n \in 0..MaxShortKey}
        LongKeys ==
            {[i \in 1..n |-> IF i = 1 THEN first ELSE IF i = n THEN last ELSE "k"] :
                n \in 62..66, first \in {"a", "_", "/"}, last \in {"7", "-", " "}}
    IN ShortKeys \cup LongKeys

\* one handler that has cloned its repository and is about to index it
NameInit ==
    /\ tokensFile = NoTokensFile /\ requests = <<>>
    /\ variant \in Variants
    /\ issue = Task(RepoUrl, <<"PROJ-1">>, <<"Health endpoint">>,
                    <<"add a health endpoint">>, SampleTree).issue
    /\ disk = EmptyTree
    /\ chroma = NoCollections /\ git = NoGit
    /\ LET i == Task(RepoUrl, <<"P", "-", "1">>, <<"f", "i", "x">>,
                     <<"a", "d", "d">>, EmptyTree).issue
           localPath == LocalPath(i.issueKey, i.repo)
       IN /\ tmpdir = (localPath :> Remote(i.repo))
          /\ handlers = <<[Handler(i) EXCEPT !.pc = "gather",
                                             !.localPath = localPath]>>
    /\ hpc = "start" /\ pc = "idle" /\ attempt = 0
    /\ allChanged = <<>> /\ currentDescription = <<>> /\ iterations = <<>>
    /\ repoContext = <<>> /\ prompt = <<>> /\ aiResponse = <<>>
    /\ changed = <<>> /\ pendingTests = <<>> /\ testFiles = {}
    /\ branch = <<>> /\ calls = NoCalls /\ outcomes = <<>>
    /\ writes = <<>> /\ mkdirs = <<>> /\ built = NotBuilt
    /\ thrown = "none" /\ response = NoResponse

NameNext ==
    \/ \E h \in 1..Len(handlers), key \in CollectionKeys : embedRepoFiles(h, key)
    \/ \E h \in 1..Len(handlers) : Search(h)

NameSpec == NameInit /\ [][NameNext]_vars

-----------------------------------------------------------------------------
(* The token storage of the OAuth routes: gitHubOAuth.ts, and its earlier
   copy part_001 whose readTokens differs only in taking every read error for
   an absent file.  Two callbacks are served side by side by one process and
   lookups arrive at any time; each await is a point where another request
   runs *)

\* the largest number of /token lookups of a run
MaxLookups == 2

\* a file holding the tokens of some users
TokensFile(data) == [exists |-> TRUE, data |-> data]

\* gitHubOAuth.ts:17-25  the record in the file, {} when there is no file
readTokens(file) == IF file.exists THEN file.data ELSE NoTokensFile.data

\* a request of the OAuth router at its first step; settled tells whether
\* every callback had replied when the request arrived
OAuthRequest(route, jiraUserId, accessToken, settled) ==
    [route |-> route, jiraUserId |-> jiraUserId,
     pc |-> IF route = "callback" THEN "exchange" ELSE "read",
     accessToken |-> accessToken, tokens |-> NoTokensFile.data,
     settled |-> settled, status |-> 0, body |-> ""]

\* two callbacks have arrived, each with the code of one user
TokenInit ==
    /\ tokensFile \in {NoTokensFile, TokensFile([u \in {"user-0"} |-> "gho_0"])}
    /\ \E a \in {"user-1", "user-2"}, b \in {"user-1", "user-2"} :
         requests = <<OAuthRequest("callback", a, "gho_1", FALSE),
                      OAuthRequest("callback", b, "gho_2", FALSE)>>
    /\ variant = "router"
    /\ issue = Task(RepoUrl, <<"PROJ-1">>, <<"Health endpoint">>,
                    <<"add a health endpoint">>, SampleTree).issue
    /\ disk = EmptyTree
    /\ chroma = NoCollections /\ tmpdir = NoCollections /\ handlers = <<>>
    /\ git = NoGit
    /\ hpc = "start" /\ pc = "idle" /\ attempt = 0
    /\ allChanged = <<>> /\ currentDescription = <<>> /\ iterations = <<>>
    /\ repoContext = <<>> /\ prompt = <<>> /\ aiResponse = <<>>
    /\ changed = <<>> /\ pendingTests = <<>> /\ testFiles = {}
    /\ branch = <<>> /\ calls = NoCalls /\ outcomes = <<>>
    /\ writes = <<>> /\ mkdirs = <<>> /\ built = NotBuilt
    /\ thrown = "none" /\ response = NoResponse

\* gitHubOAuth.ts:54-59  the code is exchanged for the access token
ExchangeCode(r) ==
    /\ requests[r].route = "callback" /\ requests[r].pc = "exchange"
    /\ requests' = [requests EXCEPT ![r].pc = "read"]
    /\ UNCHANGED <<tokensFile, chroma, tmpdir, handlers, taskVars>>

\* gitHubOAuth.ts:62-63  the callback reads the file and sets its token in
\* the record it read
CallbackRead(r) ==
    /\ requests[r].route = "callback" /\ requests[r].pc = "read"
    /\ LET tokens == readTokens(tokensFile)
           jiraUserId == requests[r].jiraUserId
           \* tokens[jiraUserId] = accessToken
           assigned == [u \in DOMAIN tokens \cup {jiraUserId} |->
                          IF u = jiraUserId THEN requests[r].accessToken
                          ELSE tokens[u]]
       IN requests' = [requests EXCEPT ![r].tokens = assigned,
                                       ![r].pc = "write"]
    /\ UNCHANGED <<tokensFile, chroma, tmpdir, handlers, taskVars>>

\* gitHubOAuth.ts:27-29 and 64-68  the callback writes its record as the
\* whole file and replies
writeTokens(r) ==
    /\ requests[r].route = "callback" /\ requests[r].pc = "write"
    /\ tokensFile' = TokensFile(requests[r].tokens)
    /\ requests' = [requests EXCEPT ![r].pc = "done", ![r].status = 200]
    /\ UNCHANGED <<chroma, tmpdir, handlers, taskVars>>

\* gitHubOAuth.ts:72-73  a lookup arrives
TokenRequest(jiraUserId) ==
    /\ Len(requests) < 2 + MaxLookups
    /\ requests' =
         Append(requests,
                OAuthRequest("token", jiraUserId, "",
                             \A c \in 1..Len(requests) :
                                requests[c].route = "callback"
                                => requests[c].pc = "done"))
    /\ UNCHANGED <<tokensFile, chroma, tmpdir, handlers, taskVars>>

\* gitHubOAuth.ts:74-79  the lookup reads the file and replies: the first
\* reply sent is the one the client gets
TokenReply(r) ==
    /\ requests[r].route = "token" /\ requests[r].pc = "read"
    /\ LET tokens == readTokens(tokensFile)
           jiraUserId == requests[r].jiraUserId
       IN requests' =
            [requests EXCEPT
               ![r].tokens = tokens,
               ![r].pc = "done",
               ![r].status = IF jiraUserId \in DOMAIN tokens THEN 200 ELSE 404,
               ![r].body = IF jiraUserId \in DOMAIN tokens
                           THEN tokens[jiraUserId] ELSE "token_not_found"]
    /\ UNCHANGED <<tokensFile, chroma, tmpdir, handlers, taskVars>>

TokenNext ==
    \/ \E r \in 1..Len(requests) : ExchangeCode(r)
    \/ \E r \in 1..Len(requests) : CallbackRead(r)
    \/ \E r \in 1..Len(requests) : writeTokens(r)
    \/ \E u \in {"user-1", "user-2"} : TokenRequest(u)
    \/ \E r \in 1..Len(requests) : TokenReply(r)

TokenSpec == TokenInit /\ [][TokenNext]_vars

-----------------------------------------------------------------------------
(* The claims *)

\* a log entry with neither buildError nor testFailures (utils.ts:403)
ErrorFree(e) == ~Truthy(e.buildError) /\ ~Truthy(e.testFailures)

\* C1: in every reachable state of a run the Iteration Log holds at most
\* MAX_RETRIES entries and the generative model has been called at most
\* MAX_RETRIES times.
C1_LogAndCallsBounded ==
    /\ Len(iterations) <= MAX_RETRIES
    /\ calls.generate <= MAX_RETRIES

C1_Witness ==
    /\ Len(iterations) = MAX_RETRIES
    /\ calls.generate = MAX_RETRIES

\* C2: an error-free log entry is the last one and the loop has returned when
\* it is there; when the build (and the tests, where run) of attempt 1
\* succeeded the log has exactly one entry, and it is error-free.
C2_StopsAtFirstSuccess ==
    /\ \A i \in 1..Len(iterations) :
         ErrorFree(iterations[i]) => i = Len(iterations) /\ pc = "returned"
    /\ (Len(outcomes) >= 1 /\ outcomes[1].build /\ outcomes[1].test # "failed")
         => /\ Len(iterations) = 1
            /\ ErrorFree(iterations[1])
            /\ pc = "returned"

C2_Witness ==
    /\ hpc = "done"
    /\ Len(response.iterations) = 1
    /\ ErrorFree(response.iterations[1])

\* C3: under FairSpec every run that enters the retry loop leaves it: the loop
\* returns (first success or exhausted retries) or a fatal error ends it.
C3_LoopTerminates == (hpc = "loop") ~> (hpc # "loop")

C3_Witness ==
    /\ variant = "part002"
    /\ pc = "returned"
    /\ attempt = MAX_RETRIES
    /\ outcomes[MAX_RETRIES].test = "failed"

\* the paths of the log entries' changedFiles
LoggedPaths(log) ==
    UNION {SeqToSet(log[i].changedFiles) : i \in 1..Len(log)}

\* the failure text an entry carries: buildError || testFailures
FailureText(e) ==
    IF Truthy(e.buildError) THEN e.buildError.text ELSE e.testFailures.text

\* C4: when the loop has returned and the build of every attempt failed, the
\* log has exactly MAX_RETRIES entries, each of them carries a buildError, and
\* the aggregate changedFiles holds the paths of all attempts.
C4_ExhaustionAllBuildErrors ==
    (/\ pc = "returned"
     /\ outcomes # <<>>
     /\ \A i \in 1..Len(outcomes) : ~outcomes[i].build)
    => /\ thrown \notin {"build", "test"}
       /\ Len(iterations) = MAX_RETRIES
       /\ \A i \in 1..Len(iterations) : iterations[i].buildError.set
       /\ SeqToSet(allChanged) = LoggedPaths(iterations)

\* C5: the prompt of the attempt after a failed one contains, piece by piece
\* and in order, every failure text the failed attempt's entry carries; this
\* holds for the logged prompts and for the prompt of the attempt under way.
C5_PromptCarriesLastFailure ==
    LET Shown(e, p) ==
          /\ e.buildError.set \/ e.testFailures.set
          /\ e.buildError.set => Contains(p, e.buildError.text)
          /\ e.testFailures.set => Contains(p, e.testFailures.text)
    IN /\ \A n \in 1..(Len(iterations) - 1) :
            Shown(iterations[n], iterations[n + 1].prompt)
       /\ (hpc = "loop" /\ pc \in {"generate", "apply", "verify"}
           /\ iterations # <<>>)
          => Shown(iterations[Len(iterations)], prompt)

C5_Witness ==
    /\ Len(iterations) = MAX_RETRIES
    /\ Truthy(iterations[1].buildError)
    /\ Len(iterations[1].buildError.text) > 1
    /\ Truthy(iterations[2].testFailures)
    /\ Len(iterations[2].testFailures.text) > 1
    /\ Contains(iterations[3].prompt, iterations[2].testFailures.text)

\* C6 as the specification states it: every prompt from the second attempt on
\* contains the original task description and the failure text of every
\* earlier attempt.
C6_AllHistoryInPrompt ==
    \A n \in 2..Len(iterations) :
       /\ Contains(iterations[n].prompt, DescriptionOf(variant, issue))
       /\ \A m \in 1..(n - 1) :
            Contains(iterations[n].prompt, FailureText(iterations[m]))

\* C6 as the code has it: from the second attempt on the prompt is built from
\* the repository context, the issue summary and, in the place of the
\* description, exactly the text "Previous code generated errors:", the
\* failure text of the attempt before, "Please provide corrected code
\* changes."; every logged prompt contains the summary and that text.
C6_PromptCarriesOnlyLastFailure ==
    LET Synthetic(e) ==
          <<"Previous code generated errors:\n">> \o FailureText(e)
          \o <<"\nPlease provide corrected code changes.">>
    IN /\ \A n \in 2..Len(iterations) :
            /\ Contains(iterations[n].prompt, SummaryOf(variant, issue))
            /\ Contains(iterations[n].prompt, Synthetic(iterations[n - 1]))
       /\ (hpc = "loop" /\ pc \in {"generate", "apply", "verify"}
           /\ iterations # <<>>)
          => prompt = buildPrompt(variant, repoContext,
                                  SummaryOf(variant, issue),
                                  Synthetic(iterations[Len(iterations)]))

C6_Witness ==
    /\ Len(iterations) = MAX_RETRIES
    /\ FailureText(iterations[1]) # FailureText(iterations[2])
    /\ ~Contains(iterations[3].prompt, FailureText(iterations[1]))
    /\ ~Contains(iterations[3].prompt, DescriptionOf(variant, issue))

\* C7: when the loop has returned, after a success as after the last retry,
\* the returned changedFiles holds each path once, its paths are the paths of
\* the log entries' changedFiles, and these are the paths applyAiChanges wrote
\* in the attempts; the response carries the same list.
C7_ChangedFilesIsUnion ==
    /\ (pc = "returned" /\ variant # "router")
       => /\ SeqToSet(allChanged) = LoggedPaths(iterations)
          /\ Cardinality(SeqToSet(allChanged)) = Len(allChanged)
          /\ SeqToSet(allChanged) = {writes[i].path : i \in 1..Len(writes)}
    /\ (hpc = "done" /\ variant # "router")
       => response.changedFiles = allChanged

C7_Witness ==
    /\ hpc = "done"
    /\ Len(iterations) = 2
    /\ "src/health.ts" \in SeqToSet(iterations[1].changedFiles)
    /\ "src/health.ts" \in SeqToSet(iterations[2].changedFiles)
    /\ "src/app.ts" \in SeqToSet(response.changedFiles)

\* C8: every verification that has run has its entry in the log, a failed
\* build or test run is on its entry as buildError or testFailures, no error
\* of the build or the tests is thrown to the caller, and after the last
\* attempt's verification the loop has returned.
C8_FailuresAreRecorded ==
    /\ Len(iterations) = Len(outcomes)
    /\ \A i \in 1..Len(outcomes) :
         (~outcomes[i].build \/ outcomes[i].test = "failed")
         => /\ i <= Len(iterations)
            /\ iterations[i].attempt = i
            /\ iterations[i].buildError.set \/ iterations[i].testFailures.set
    /\ thrown \notin {"build", "test"}
    /\ Len(outcomes) = MAX_RETRIES => pc = "returned"

C8_Witness ==
    /\ hpc = "done"
    /\ Len(outcomes) = MAX_RETRIES
    /\ ~outcomes[MAX_RETRIES].build
    /\ Truthy(response.iterations[MAX_RETRIES].buildError)

\* C9: when the completion call of attempt n has failed the handler has ended
\* with an error: the log holds the n - 1 entries of the attempts before, no
\* file was written and no build was run for attempt n, the description is
\* the one the prompt of attempt n was built from (the original one, or the
\* feedback of attempt n - 1), and no further retrieval or completion call was
\* made.
C9_CompletionFailureAborts ==
    thrown = "completion"
    => /\ hpc = "error" /\ pc = "threw"
       /\ response.status = 500
       /\ Len(iterations) = attempt
       /\ \A i \in 1..Len(writes) : writes[i].attempt <= attempt
       /\ calls.build = attempt
       /\ calls.gather = attempt + 1
       /\ calls.generate = attempt + 1
       /\ prompt = buildPrompt(variant, repoContext, SummaryOf(variant, issue),
                               currentDescription)
       /\ currentDescription =
            IF attempt = 0 THEN DescriptionOf(variant, issue)
            ELSE Feedback(iterations[attempt].buildError,
                          iterations[attempt].testFailures)

C9_Witness ==
    /\ thrown = "completion"
    /\ attempt = MAX_RETRIES - 1
    /\ writes # <<>>

\* C10: after a fatal error (no repository URL, no default branch found, a
\* failed completion call, an error while the changes were applied) the
\* handler has answered with an error and neither the commit nor the push
\* has run.
C10_FatalErrorNoCommitNoPush ==
    thrown \in {"missingRepo", "defaultBranch", "completion", "applyFs",
                "applyJson"}
    => /\ hpc = "error"
       /\ response.status \in {400, 500}
       /\ response.error = thrown
       /\ calls.commit = 0
       /\ calls.push = 0

C10_Witness ==
    /\ thrown = "applyJson"
    /\ attempt >= 1
    /\ response.status = 500

\* C11: under FairHandler, once the loop has returned, after a success as
\* after the last failed attempt, the handler commits and pushes the branch
\* (or git itself fails); no commit or push happens before the loop has
\* returned, and the push comes after the commit.
C11_PushAfterLoopReturns ==
    /\ []((calls.commit > 0 \/ calls.push > 0) => pc = "returned")
    /\ [](calls.push > 0 => calls.commit > 0)
    /\ [](hpc = "done" => calls.commit = 1 /\ calls.push = 1)
    /\ (pc = "returned") ~> (hpc = "done" \/ thrown \in {"commit", "push"})

C11_Witness ==
    /\ variant = "part002"
    /\ calls.commit = 1 /\ calls.push = 1
    /\ attempt = MAX_RETRIES
    /\ Truthy(iterations[MAX_RETRIES].testFailures)

\* the fragments of a response: each "- Path:" line with the lines up to the
\* next one
RECURSIVE Fragments(_, _)
Fragments(resp, i) ==
    LET p == NextPathIndex(resp, i) IN
    IF p > Len(resp) THEN <<>>
    ELSE LET n == NextPathIndex(resp, p + 1)
         IN <<[path |-> resp[p].v[1], body |-> SubSeq(resp, p + 1, n - 1)]>>
            \o Fragments(resp, n)

\* the path contains '<' or '>'
HasAngle(path) ==
    path \in {"<relative/path>", "<src/x.ts", "src/a>b.ts", "src/a<b.ts"}

\* the fragment has a "- Content:" line
HasMarker(f) == \E i \in 1..Len(f.body) : f.body[i].k \in TrimmedContentMarkers

\* the lines after the fragment's first "- Content:" line
ContentOf(f) ==
    SubSeq(f.body, FindIndex(f.body, TrimmedContentMarkers, 1) + 1, Len(f.body))

\* a block applyChanges is to skip: no content marker, a placeholder path, or
\* manifest content that is not an object document
Malformed(f) ==
    \/ ~HasMarker(f)
    \/ HasAngle(f.path)
    \/ f.path = "package.json" /\ ~IsJson(Trim(ContentOf(f)))

\* the call of applyAiChanges has returned or thrown, and the file system
\* did not fail
Applied == pc # "apply" /\ thrown # "applyFs"

\* C12: in the handler of utils.ts, whatever the response contains, a call of
\* applyAiChanges in which the file system does not fail returns without an
\* error; every well-formed block of the response is written and in the
\* returned paths, and a malformed block (no content marker, placeholder path,
\* unparseable manifest content) adds no path.
C12_MalformedBlocksSkipped ==
    (variant = "utils" /\ Applied)
    => LET fs == Fragments(aiResponse, 1)
           good == {fs[i].path : i \in {j \in 1..Len(fs) : ~Malformed(fs[j])}}
       IN /\ thrown = "none"
          /\ good \subseteq SeqToSet(changed)
          /\ good \subseteq DOMAIN disk
          /\ SeqToSet(changed) \subseteq good

\* C13: in the handlers of utils.ts and part_002, after a call of
\* applyAiChanges in which the file system does not fail, a block whose path
\* contains '<' or '>' has left no file, no directory creation and no
\* returned path, and the well-formed blocks of the response that have
\* content are applied when the call has returned.
C13_AnglePathsSkipped ==
    (variant \in {"utils", "part002"} /\ Applied)
    => LET fs == Fragments(aiResponse, 1)
           angle == {j \in 1..Len(fs) : HasAngle(fs[j].path)}
           good == {j \in 1..Len(fs) :
                      ~Malformed(fs[j]) /\ Trim(ContentOf(fs[j])) # <<>>}
       IN /\ \A j \in angle :
               /\ fs[j].path \notin SeqToSet(changed)
               /\ fs[j].path \notin DOMAIN disk
          /\ Len(mkdirs) <= Len(fs) - Cardinality(angle)
          /\ (thrown = "none" /\ angle # {})
             => \A j \in good : fs[j].path \in SeqToSet(changed)

\* the content is wrapped in an opening and a closing code-fence line
Fenced(c) == Len(c) >= 2 /\ c[1].k = "fence" /\ c[Len(c)] = Fence(<<>>)

\* the last fragment of the response that names the path of fragment j
LastOfPath(fs, j) == \A m \in (j + 1)..Len(fs) : fs[m].path # fs[j].path

\* C14: in the handler of utils.ts, after applyAiChanges has returned, the
\* file of every block whose content is wrapped in an opening and a closing
\* fence line holds the lines between the two fences, as it would for the
\* same content without fences, wherever the block stands in the response and
\* whatever whitespace follows it.
C14_FencesStripped ==
    (variant = "utils" /\ Applied /\ thrown = "none")
    => LET fs == Fragments(aiResponse, 1)
       IN \A j \in 1..Len(fs) :
            (/\ HasMarker(fs[j])
             /\ LastOfPath(fs, j)
             /\ Fenced(Trim(ContentOf(fs[j]))))
            => LET c == Trim(ContentOf(fs[j]))
               IN disk[fs[j].path] = Trim(SubSeq(c, 2, Len(c) - 1))

\* C15: in the handlers of utils.ts and part_002, for a response that is
\* made of N blocks, each a path line with a path free of '<' and '>' that is
\* not package.json, a "- Content:" line and the content, a call of
\* applyAiChanges in which the file system does not fail returns the N paths
\* in their order, and afterwards each file holds the cleaned content of the
\* last block that names it: the content without an opening fence line,
\* without a closing fence line, and trimmed.
C15_RoundTrip ==
    LET fs == Fragments(aiResponse, 1)
        WellFormed ==
          /\ NextPathIndex(aiResponse, 1) = 1
          /\ \A j \in 1..Len(fs) :
               /\ fs[j].body # <<>>
               /\ fs[j].body[1] = ContentLine
               /\ ~HasAngle(fs[j].path)
               /\ fs[j].path # "package.json"
        Cleaned(raw) ==
          LET t == Trim(raw)
              a == IF t # <<>> /\ t[1].k = "fence" THEN Tail(t) ELSE t
              b == IF a # <<>> /\ a[Len(a)] = Fence(<<>>)
                   THEN SubSeq(a, 1, Len(a) - 1) ELSE a
          IN Trim(b)
    IN (variant \in {"utils", "part002"} /\ Applied /\ WellFormed)
       => /\ thrown = "none"
          /\ changed = [j \in 1..Len(fs) |-> fs[j].path]
          /\ \A j \in 1..Len(fs) :
               LastOfPath(fs, j)
               => /\ fs[j].path \in DOMAIN disk
                  /\ disk[fs[j].path] = Cleaned(Tail(fs[j].body))

\* C16: in the handler of utils.ts, a call of applyAiChanges that returns,
\* on a response with one package.json block (and no block that names the
\* manifest by another path), leaves a manifest whose entries
\* under scripts, dependencies and devDependencies are the entries it had
\* plus the model's entries under keys the section lacked, each key once, and
\* whose top-level keys and values outside the sections are the ones it had.
C16_ManifestMergeAdditive ==
    [][LET fs == Fragments(aiResponse, 1)
           ms == {j \in 1..Len(fs) :
                    fs[j].path = "package.json" /\ HasMarker(fs[j])}
           aliases == {j \in 1..Len(fs) :
                         /\ fs[j].path # "package.json"
                         /\ Resolve(fs[j].path) = "package.json"}
           Entries(m) ==
             {<<m[i].v[1], m[i].v[2], m[i].v[3]>> :
                 i \in {j \in 1..Len(m) : m[j].k = "entry"}}
           Tops(m) == {m[i].v : i \in {j \in 1..Len(m) : m[j].k = "top"}}
       IN (/\ variant = "utils" /\ pc = "apply" /\ thrown' = "none"
           /\ Cardinality(ms) = 1 /\ aliases = {})
          => LET f == fs[CHOOSE j \in ms : TRUE]
                 before == IF "package.json" \in DOMAIN disk
                           THEN JsonParse(disk["package.json"]) ELSE <<>>
                 ai == JsonParse(Trim(ContentOf(f)))
                 after == JsonParse(disk'["package.json"])
                 new == {e \in Entries(ai) :
                            /\ e[1] \in {"scripts", "dependencies",
                                         "devDependencies"}
                            /\ \A x \in Entries(before) :
                                  ~(x[1] = e[1] /\ x[2] = e[2])}
             IN /\ IsJson(disk'["package.json"])
                /\ Entries(after) = Entries(before) \cup new
                /\ Cardinality({<<e[1], e[2]>> : e \in Entries(after)})
                     = Len(SelectSeq(after, LAMBDA l : l.k = "entry"))
                /\ Tops(after) = Tops(before)
                /\ "package.json" \in SeqToSet(changed')]_vars

C16_Witness ==
    /\ variant = "utils" /\ pc = "verify"
    /\ \E i \in 1..Len(aiResponse) :
         aiResponse[i] = JEntry("scripts", "build", "webpack")
    /\ "package.json" \in DOMAIN disk
    /\ LET m == disk["package.json"]
       IN /\ \E i \in 1..Len(m) : m[i] = JEntry("scripts", "build", "tsc")
          /\ \E i \in 1..Len(m) : m[i] = JEntry("scripts", "test", "jest")
          /\ \E i \in 1..Len(m) : m[i] = JTop("name", "app")

\* C17: in the handler of utils.ts, a call of applyAiChanges creates no
\* directory, writes no file and returns no path for a fragment without a
\* content marker: the directories it creates and the paths it writes are
\* at most one per fragment that has the marker and are those fragments'
\* own, every other file is left as it was, and on a response in which no
\* fragment has the marker the call returns the empty sequence of paths
\* without an error and without touching the file system.
C17_NoMarkerNoEffect ==
    [][(variant = "utils" /\ pc = "apply")
       => LET fs == Fragments(aiResponse, 1)
              marked == {j \in 1..Len(fs) : HasMarker(fs[j])}
              paths == {fs[j].path : j \in marked}
              places == {Resolve(p) : p \in paths}
              made == SubSeq(mkdirs', Len(mkdirs) + 1, Len(mkdirs'))
              written == SubSeq(writes', Len(writes) + 1, Len(writes'))
          IN /\ Len(made) <= Cardinality(marked)
             /\ Len(written) <= Cardinality(marked)
             /\ {made[i].dir : i \in 1..Len(made)}
                  \subseteq {Dirname(p) : p \in paths}
             /\ {written[i].path : i \in 1..Len(written)} \subseteq paths
             /\ SeqToSet(changed') \subseteq paths \cup SeqToSet(changed)
             /\ \A p \in DOMAIN disk' \ places :
                  p \in DOMAIN disk /\ disk'[p] = disk[p]
             /\ DOMAIN disk \subseteq DOMAIN disk'
             /\ marked = {}
                => /\ thrown' = "none" /\ pc' = "verify"
                   /\ changed' = <<>>
                   /\ made = <<>> /\ written = <<>>
                   /\ disk' = disk]_vars

C17_Witness ==
    /\ variant = "utils" /\ pc = "verify" /\ thrown = "none"
    /\ LET fs == Fragments(aiResponse, 1)
       IN /\ Len(fs) = 2
          /\ ~HasMarker(fs[1]) /\ HasMarker(fs[2])
          /\ fs[1].path # fs[2].path
          /\ changed = <<fs[2].path>>
          /\ Len(mkdirs) = 1

\* C18: whatever way the build process ended (exit status zero, non-zero
\* exit, shell not started), a call of buildProject returns a value with a
\* success field instead of throwing, and success is false exactly when the
\* process failed.
C18_BuildNeverThrows ==
    built.state # "none"
    => /\ built.state = "returned"
       /\ built.success \in {"true", "false"}
       /\ built.success = "false" <=> ~built.proc.ok

\* C19: in the handler of utils.ts, after a failed build the errorOutput
\* buildProject returned contains what the process wrote to stdout and what
\* it wrote to stderr, and so does the prompt of the attempt that follows.
C19_ErrorOutputBothStreams ==
    (variant = "utils" /\ built.state = "returned" /\ built.success = "false")
    => /\ built.errorOutput.set
       /\ Contains(built.errorOutput.text, built.proc.stdout)
       /\ Contains(built.errorOutput.text, built.proc.stderr)
       /\ (hpc = "loop" /\ pc \in {"generate", "apply", "verify"})
          => /\ Contains(prompt, built.proc.stdout)
             /\ Contains(prompt, built.proc.stderr)

\* C20: whatever indexing and retrieval do, the step that gathers the
\* context ends without an error at the generation of the attempt, with the
\* digest of the retrieved files or, when there is no source directory or the
\* retrieval failed, with the no-files text as the context of the prompt.
C20_GatherFailureDegrades ==
    [][(hpc \in {"loop", "single"} /\ pc = "gather" /\ pc' # "gather")
       => /\ pc' = "generate" /\ hpc' = hpc
          /\ thrown' = "none" /\ response' = NoResponse
          /\ \/ repoContext' = NoFilesAvailable
             \/ /\ variant = "router" /\ repoContext' = <<>>
                /\ Contains(prompt',
                     <<"No files available. This might be a new repository.">>)
             \/ /\ SrcExists(disk)
                /\ repoContext' =
                     IF variant = "router"
                     THEN RouterDigest(searchRelevantFiles(disk, 1))
                     ELSE Digest(searchRelevantFiles(disk, 1), 1)]_vars

\* C21: in the handler of utils.ts, the context digest an attempt puts in
\* its prompt is never longer than MAX_PROMPT_LENGTH characters, and when the
\* retrieved files hold more text than that the step still ends without an
\* error, with a digest that keeps the most relevant file first.
C21_DigestWithinCeiling ==
    (variant = "utils" /\ pc \in {"generate", "apply"})
    => /\ TextLen(repoContext) <= MAX_PROMPT_LENGTH
       /\ TextLen(Digest(searchRelevantFiles(disk, 1), 1)) > MAX_PROMPT_LENGTH
          => /\ thrown = "none"
             /\ Contains(repoContext, <<"--- File ", "1", " (", "src/app.ts">>)

\* C22: two handlers on different repositories, their steps interleaved in
\* any order, work in different directories and index into different
\* collections; the digest and the prompt of each name no file of the
\* other's working directory, and each working directory holds its own
\* repository's files, changed by its own handler's response only.
C22_TasksDoNotInterfere ==
    \A a \in 1..Len(handlers), b \in 1..Len(handlers) :
       (a # b /\ handlers[a].issue.repo # handlers[b].issue.repo
        /\ handlers[a].pc # "start" /\ handlers[b].pc # "start")
       => LET me == handlers[a]
              other == handlers[b]
              mine == Remote(me.issue.repo)
          IN /\ me.localPath # other.localPath
             /\ (me.collection # <<>> /\ other.collection # <<>>)
                => me.collection # other.collection
             /\ ~Contains(me.repoContext, other.localPath)
             /\ ~Contains(me.prompt, other.localPath)
             /\ tmpdir[me.localPath]
                  \in {mine, applyAiChanges(variant, mine, GoodBlock, 0).disk}

\* C23: while the loop is at one of its steps, no file write started by an
\* earlier step is still to come, and the steps have run in order: no more
\* generations than gatherings, no more builds than generations, and at the
\* gathering of an attempt every earlier attempt is in the log.
C23_StepsDoNotOverlap ==
    (hpc = "loop" /\ pc \in {"gather", "generate", "apply", "verify"})
    => /\ pendingTests = <<>>
       /\ calls.generate <= calls.gather
       /\ calls.build <= calls.generate
       /\ pc = "gather" => Len(iterations) >= calls.build

\* C24: in the handler of part_002, on every attempt whose build succeeds the
\* tests are run, and when they have run the test file of each path the
\* attempt changed is on disk and none of them is still to be written.
C24_TestFilesBeforeTests ==
    [][(/\ variant = "part002" /\ pc = "verify"
        /\ Len(outcomes') > Len(outcomes)
        /\ outcomes'[Len(outcomes')].build)
       => /\ outcomes'[Len(outcomes')].test # "notrun"
          /\ SeqToSet(changed) \subseteq testFiles'
          /\ \A i \in 1..Len(pendingTests') : pendingTests'[i] # changed]_vars

\* C25: every entry of the log has testFailures set only when the tests of
\* its attempt failed and buildError set only when its build failed; the
\* entry of a failed build has no testFailures, whatever the build wrote, and
\* no entry has both fields set.
C25_FailuresDistinguished ==
    \A n \in 1..Len(iterations) :
       LET e == iterations[n]
           o == outcomes[n]
       IN /\ e.testFailures.set => o.test = "failed"
          /\ e.buildError.set => ~o.build
          /\ ~o.build => ~e.testFailures.set
          /\ ~(e.buildError.set /\ e.testFailures.set)

\* C26: whatever the two installs do, the step that installs the
\* dependencies ends without an error and the handler goes on to create its
\* branch.
C26_InstallNotFatal ==
    [][hpc = "install"
       => /\ hpc' = "branch"
          /\ thrown' = "none" /\ response' = NoResponse]_vars

\* C27: where the default branch is determined (prepareRepository on an
\* existing clone in utils.ts and part_002, createFeatureBranch in utils.ts),
\* for every list of remote branches: with a remote branch main the branch
\* checked out is main; without it and with a remote branch master it is
\* master; with neither the step fails with the default-branch error and
\* checks nothing out.  A branch such as origin/feature/main is neither.
C27_DefaultBranchLiteral ==
    (/\ git.op # "none"
     /\ \/ variant = "utils" /\ (git.op = "prepare" => git.exists)
        \/ variant = "part002" /\ git.op = "prepare" /\ git.exists)
    => LET main == "origin/main" \in git.remoteBranches
           master == "origin/master" \in git.remoteBranches
       IN /\ main => git.checkout = "main" /\ thrown # "defaultBranch"
          /\ (~main /\ master)
             => git.checkout = "master" /\ thrown # "defaultBranch"
          /\ (~main /\ ~master)
             => git.checkout = "none" /\ thrown = "defaultBranch"

\* C28: for every key embedRepoFiles is called with, the name of the
\* collection it gets has 3 to 64 characters, all of them letters, digits,
\* '.', '_' or '-', the first and the last a letter or a digit; when the key
\* with its invalid characters replaced and its ends made alphanumeric is
\* longer than 64 characters the name is the MD5 hex digest of the key, and
\* otherwise the name holds the key with its invalid characters replaced.
C28_CollectionNameValid ==
    \A h \in 1..Len(handlers) :
       handlers[h].collection # <<>>
       => LET key == handlers[h].collectionName
              name == handlers[h].collection
              replaced == [i \in 1..Len(key) |->
                             IF NameChar(key[i]) THEN key[i] ELSE "_"]
              sanitized ==
                Len(key)
                + (IF key # <<>> /\ AlphaNum(key[1]) THEN 0 ELSE 1)
                + (IF key = <<>> \/ AlphaNum(key[Len(key)]) THEN 0 ELSE 1)
          IN /\ Len(name) >= 3 /\ Len(name) <= 64
             /\ \A i \in 1..Len(name) : NameChar(name[i])
             /\ AlphaNum(name[1]) /\ AlphaNum(name[Len(name)])
             /\ name \in DOMAIN chroma
             /\ IF sanitized > 64 THEN name = Md5Hex(key)
                ELSE Contains(name, replaced)

C28_Witness ==
    \E h \in 1..Len(handlers) :
       /\ handlers[h].pc = "apply"
       /\ Len(handlers[h].collectionName) = 63
       /\ handlers[h].collectionName[1] = "/"
       /\ handlers[h].collectionName[63] = " "
       /\ handlers[h].collection = Md5Hex(handlers[h].collectionName)
       /\ Len(handlers[h].collection) = 32

\* C29: in the handler of utils.ts a call of applyAiChanges, whatever paths
\* its response names the manifest by, leaves a manifest that is a JSON
\* document with every section entry and every top-level key of the manifest
\* it found, unchanged.
C29_ManifestNeverOverwritten ==
    [][LET Entries(m) ==
             {<<m[i].v[1], m[i].v[2], m[i].v[3]>> :
                 i \in {j \in 1..Len(m) : m[j].k = "entry"}}
           Tops(m) == {m[i].v : i \in {j \in 1..Len(m) : m[j].k = "top"}}
       IN (/\ variant = "utils" /\ pc = "apply"
           /\ "package.json" \in DOMAIN disk /\ IsJson(disk["package.json"]))
          => /\ "package.json" \in DOMAIN disk'
             /\ IsJson(disk'["package.json"])
             /\ Entries(JsonParse(disk["package.json"]))
                  \subseteq Entries(JsonParse(disk'["package.json"]))
             /\ Tops(JsonParse(disk["package.json"]))
                  \subseteq Tops(JsonParse(disk'["package.json"]))]_vars

\* C30: after a call of applyAiChanges, in each of the three handlers and
\* whatever paths the response names, every file of the tree and every
\* directory created lies in the working directory or below it.
C30_WritesInsideWorkingDir ==
    pc # "apply"
    => /\ \A p \in DOMAIN disk : Inside(p)
       /\ \A i \in 1..Len(mkdirs) : Inside(mkdirs[i].dir)

\* C31: in the loops of utils.ts and part_002, an entry of the log has
\* neither buildError nor testFailures (absent or empty) exactly when the
\* build of its attempt succeeded and its tests, where they ran, passed, also
\* for a build that failed leaving no output; and a loop that returned before
\* its last attempt, or whose last entry has neither field, ended on such a
\* success.
C31_ErrorFreeIffSucceeded ==
    LET Clean(e) == ~Truthy(e.buildError) /\ ~Truthy(e.testFailures)
        Succeeded(o) == o.build /\ o.test # "failed"
    IN (variant \in {"utils", "part002"} /\ Len(outcomes) = Len(iterations))
       => /\ \A n \in 1..Len(iterations) :
               /\ Clean(iterations[n]) <=> Succeeded(outcomes[n])
               /\ Clean(iterations[n])
                    <=> (~iterations[n].buildError.set
                         /\ ~iterations[n].testFailures.set)
          /\ (pc = "returned" /\ iterations # <<>>
              /\ (attempt < MAX_RETRIES \/ Clean(iterations[Len(iterations)])))
             => Succeeded(outcomes[Len(outcomes)])

\* a loop that went on after a build that failed without any output and
\* returned on a later attempt that succeeded
C31_Witness ==
    /\ variant \in {"utils", "part002"} /\ pc = "returned"
    /\ Len(iterations) = 2 /\ Len(outcomes) = 2
    /\ built.state # "none"
    /\ ~outcomes[1].build /\ Truthy(iterations[1].buildError)
    /\ iterations[1].buildError.text = <<"spawnSync /bin/sh ENOENT">>
    /\ outcomes[2].build
    /\ ~iterations[2].buildError.set /\ ~iterations[2].testFailures.set

\* C32: when the callbacks of two different users have both replied, a
\* lookup that arrives afterwards for either of them is answered with the
\* token that user's callback stored, however the reads and writes of the
\* two callbacks were interleaved.
C32_NoTokenUpdateLost ==
    \A q \in 1..Len(requests) : \A c \in 1..2 :
       (/\ requests[1].jiraUserId # requests[2].jiraUserId
        /\ requests[q].route = "token" /\ requests[q].pc = "done"
        /\ requests[q].settled
        /\ requests[q].jiraUserId = requests[c].jiraUserId)
       => /\ requests[q].status = 200
          /\ requests[q].body = requests[c].accessToken

====
